---- MODULE Spec2Model ----
(***************************************************************************)
(* Fusion engine of the product research pipeline                          *)
(* (src/product_normaliser.py, class ProductNormalizer).                   *)
(*                                                                         *)
(* A Python str is a sequence of one-character strings; the character      *)
(* classes are those of the ASCII range.  A Product (a Python dict) is a   *)
(* function from key names to values whose domain grows with dict.update.  *)
(***************************************************************************)
EXTENDS Integers, Sequences, FiniteSets, TLC

\* F(v), with v evaluated once: a local variable of the code, assigned once
\* and read many times
Let(v, F(_)) == CHOOSE r \in { F(x) : x \in {v} } : TRUE

(***************************************************************************)
(* Characters                                                              *)
(***************************************************************************)
UpperLetters ==
  <<"A","B","C","D","E","F","G","H","I","J","K","L","M",
    "N","O","P","Q","R","S","T","U","V","W","X","Y","Z">>

LowerLetters ==
  <<"a","b","c","d","e","f","g","h","i","j","k","l","m",
    "n","o","p","q","r","s","t","u","v","w","x","y","z">>

DigitChars == {"0","1","2","3","4","5","6","7","8","9"}

SpaceChars == {" ", "\t", "\n", "\r", "\f"}

LetterChars == { UpperLetters[i] : i \in 1..26 } \cup { LowerLetters[i] : i \in 1..26 }

WordChars == LetterChars \cup DigitChars \cup {"_"}

\* the lower-case letter of every upper-case letter
LowerOf ==
  [ c \in { UpperLetters[i] : i \in 1..26 } |->
      LowerLetters[CHOOSE i \in 1..26 : UpperLetters[i] = c] ]

\* str.isspace / regex \s
IsSpace(c) == c \in SpaceChars

\* regex \d
IsDigit(c) == c \in DigitChars

\* regex \w
IsWord(c) == c \in WordChars

\* str.lower() on one character (also the effect of re.I on a literal)
LowerChar(c) == IF c \in DOMAIN LowerOf THEN LowerOf[c] ELSE c

lower(s) == [i \in 1..Len(s) |-> LowerChar(s[i])]

\* the literal w (given in lower case) matches s at position i, ignoring case
MatchAt(s, i, w) ==
  /\ i >= 1
  /\ i + Len(w) - 1 <= Len(s)
  /\ \A k \in 1..Len(w) : LowerChar(s[i + k - 1]) = w[k]

RECURSIVE SkipSpace(_, _)
\* greedy \s* from position i: the first position at or after i that holds no
\* whitespace character
SkipSpace(s, i) ==
  IF i <= Len(s) /\ IsSpace(s[i]) THEN SkipSpace(s, i + 1) ELSE i

RECURSIVE SkipDigits(_, _)
\* greedy \d* from position i
SkipDigits(s, i) ==
  IF i <= Len(s) /\ IsDigit(s[i]) THEN SkipDigits(s, i + 1) ELSE i

RECURSIVE SkipNonSpace(_, _)
SkipNonSpace(s, i) ==
  IF i <= Len(s) /\ ~IsSpace(s[i]) THEN SkipNonSpace(s, i + 1) ELSE i

\* regex \b between positions i-1 and i
WordBoundary(s, i) ==
  LET before == i >= 2 /\ i - 1 <= Len(s) /\ IsWord(s[i - 1])
      after  == i >= 1 /\ i <= Len(s) /\ IsWord(s[i])
  IN  before # after

RECURSIVE split(_, _)
\* str.split() with no argument, scanning from position i
split(s, i) ==
  Let(SkipSpace(s, i), LAMBDA b :
    IF b > Len(s) THEN << >>
    ELSE Let(SkipNonSpace(s, b), LAMBDA e :
           <<SubSeq(s, b, e - 1)>> \o split(s, e)))

RECURSIVE JoinFrom(_, _)
\* ' '.join(tokens[i:])
JoinFrom(tokens, i) ==
  IF i > Len(tokens) THEN << >>
  ELSE IF i = Len(tokens) THEN tokens[i]
  ELSE tokens[i] \o <<" ">> \o JoinFrom(tokens, i + 1)

\* ' '.join(tokens)
join(tokens) == JoinFrom(tokens, 1)

(***************************************************************************)
(* clean_product_name                                                      *)
(***************************************************************************)
MaxNameLen == 100

\* New|Hot|Best|Top|Premium|Professional
PrefixWords ==
  { <<"n","e","w">>, <<"h","o","t">>, <<"b","e","s","t">>, <<"t","o","p">>,
    <<"p","r","e","m","i","u","m">>,
    <<"p","r","o","f","e","s","s","i","o","n","a","l">> }

\* Set|Kit|Pack|Bundle|Piece|Pcs
SuffixWords ==
  { <<"s","e","t">>, <<"k","i","t">>, <<"p","a","c","k">>,
    <<"b","u","n","d","l","e">>, <<"p","i","e","c","e">>, <<"p","c","s">> }

\* pcs?|pieces?|set|pack
UnitWords ==
  { <<"p","c">>, <<"p","c","s">>, <<"p","i","e","c","e">>,
    <<"p","i","e","c","e","s">>, <<"s","e","t">>, <<"p","a","c","k">> }

\* re.sub(r'^(New|Hot|Best|Top|Premium|Professional)\s+', '', name, flags=re.I)
StripPrefix(name) ==
  LET hits == { p \in PrefixWords :
                  /\ MatchAt(name, 1, p)
                  /\ Len(name) > Len(p)
                  /\ IsSpace(name[Len(p) + 1]) }
  IN  IF hits = {} THEN name
      ELSE LET p == CHOOSE p \in hits : TRUE
           IN  SubSeq(name, SkipSpace(name, Len(p) + 1), Len(name))

\* positions at which the regex $ matches: the end of the string and just
\* before a newline that ends the string
EndAnchors(s) ==
  {Len(s) + 1} \cup (IF Len(s) >= 1 /\ s[Len(s)] = "\n" THEN {Len(s)} ELSE {})

RECURSIVE SkipSpaceBack(_, _)
\* the first position of the run of whitespace characters that ends at i
SkipSpaceBack(s, i) ==
  IF i >= 2 /\ IsSpace(s[i - 1]) THEN SkipSpaceBack(s, i - 1) ELSE i

\* re.sub(r'\s+(Set|Kit|Pack|Bundle|Piece|Pcs)$', '', name, flags=re.I)
\* A match is whitespace, a word w and the anchor e; the search returns the
\* leftmost start, which is the first position of the whitespace run before w.
StripSuffix(name) ==
  LET hits == { m \in SuffixWords \X EndAnchors(name) :
                  LET b == m[2] - Len(m[1])
                  IN  /\ b >= 2
                      /\ MatchAt(name, b, m[1])
                      /\ IsSpace(name[b - 1]) }
  IN  IF hits = {} THEN name
      ELSE LET m == CHOOSE m \in hits : TRUE
               i == SkipSpaceBack(name, m[2] - Len(m[1]) - 1)
           IN  SubSeq(name, 1, i - 1) \o SubSeq(name, m[2], Len(name))

\* re.sub(r'[^\w\s-]', ' ', name)
ReplacePunctuation(name) ==
  [i \in 1..Len(name) |->
     IF IsWord(name[i]) \/ IsSpace(name[i]) \/ name[i] = "-"
     THEN name[i] ELSE " "]

\* \b\d+\s*(pcs?|pieces?|set|pack)\b matched at position i: the position just
\* after the match, or 0 when there is no match at i
QuantityEnd(s, i) ==
  LET d == SkipDigits(s, i)
      u == SkipSpace(s, d)
      hits == { w \in UnitWords :
                  MatchAt(s, u, w) /\ WordBoundary(s, u + Len(w)) }
  IN  IF i <= Len(s) /\ IsDigit(s[i]) /\ WordBoundary(s, i) /\ hits # {}
      THEN u + Len(CHOOSE w \in hits : TRUE)
      ELSE 0

RECURSIVE RemoveQuantities(_, _)
\* re.sub(r'\b\d+\s*(pcs?|pieces?|set|pack)\b', '', name, flags=re.I),
\* scanning from position i: the text up to the leftmost match at or after i
\* is kept, the match is dropped and the scan resumes just after it
RemoveQuantities(s, i) ==
  Let({ j \in i..Len(s) : QuantityEnd(s, j) # 0 }, LAMBDA starts :
    IF starts = {} THEN SubSeq(s, i, Len(s))
    ELSE Let(CHOOSE j \in starts : \A k \in starts : j <= k, LAMBDA j :
           SubSeq(s, i, j - 1) \o RemoveQuantities(s, QuantityEnd(s, j))))

\* clean_name.strip()[:100]
Truncate(s) == SubSeq(s, 1, IF Len(s) < MaxNameLen THEN Len(s) ELSE MaxNameLen)

\* ' '.join(clean_name.split())
NormalizeWhitespace(s) == Let(split(s, 1), LAMBDA tokens : join(tokens))

clean_product_name(name) ==
  IF Len(name) = 0 THEN << >>
  ELSE Let(StripPrefix(name), LAMBDA c1 :
       Let(StripSuffix(c1), LAMBDA c2 :
       Let(ReplacePunctuation(c2), LAMBDA c3 :
       Let(RemoveQuantities(c3, 1), LAMBDA c4 :
       Let(NormalizeWhitespace(c4), LAMBDA c5 :
         Truncate(c5))))))

(***************************************************************************)
(* are_similar_products                                                    *)
(***************************************************************************)
Range(f) == { f[i] : i \in DOMAIN f }

\* set(name.lower().split())
TokenSet(name) == Let(lower(name), LAMBDA lowered : Range(split(lowered, 1)))

SimilarityNum == 3

SimilarityDen == 5

\* are_similar_products with the threshold included (similarity >= 0.6)
are_similar_products_inclusive(name1, name2) ==
  IF Len(name1) = 0 \/ Len(name2) = 0 THEN FALSE
  ELSE Let(TokenSet(name1), LAMBDA norm1 :
       Let(TokenSet(name2), LAMBDA norm2 :
         LET intersection == Cardinality(norm1 \cap norm2)
             union == Cardinality(norm1 \cup norm2)
         IN  IF union = 0 THEN FALSE
             ELSE SimilarityDen * intersection >= SimilarityNum * union))

\* are_similar_products with the intersection measured against the first
\* name's tokens alone
are_similar_products_one_sided(name1, name2) ==
  IF Len(name1) = 0 \/ Len(name2) = 0 THEN FALSE
  ELSE Let(TokenSet(name1), LAMBDA norm1 :
       Let(TokenSet(name2), LAMBDA norm2 :
         LET intersection == Cardinality(norm1 \cap norm2)
             union == Cardinality(norm1)
         IN  IF union = 0 THEN FALSE
             ELSE SimilarityDen * intersection > SimilarityNum * union))

\* similarity > 0.6, the quotient intersection / union compared exactly:
\* 5 * intersection > 3 * union
are_similar_products(name1, name2) ==
  IF Len(name1) = 0 \/ Len(name2) = 0 THEN FALSE
  ELSE Let(TokenSet(name1), LAMBDA norm1 :
       Let(TokenSet(name2), LAMBDA norm2 :
         LET intersection == Cardinality(norm1 \cap norm2)
             union == Cardinality(norm1 \cup norm2)
         IN  IF union = 0 THEN FALSE
             ELSE SimilarityDen * intersection > SimilarityNum * union))

(***************************************************************************)
(* State                                                                   *)
(***************************************************************************)
VARIABLES
  products_data,   \* self.products_data: the list of Product dicts
  clock,           \* the time datetime.now() reads, in ticks
  calls,           \* number of ingestion calls made so far
  last,            \* the last call: operation, arguments, and the Product
                   \* each record was resolved to (0: the empty dict) or
                   \* what the call returned and the exception it raised
  normalized_df,   \* self.normalized_df; .set is hasattr(self, 'normalized_df')
  scored_df,       \* self.scored_df; .set is hasattr(self, 'scored_df')
  csv_file,        \* the file export_to_csv writes
  ops,             \* number of normalization, scoring and export calls so far
  threads          \* the callers that are inside a handler at the same time,
                   \* each with its record and its position in the handler;
                   \* << >> when the calls are made one after the other

vars ==
  <<products_data, clock, calls, last, normalized_df, scored_df, csv_file, ops,
    threads>>

\* what the ingestion handlers leave alone
pipeline == <<normalized_df, scored_df, csv_file, ops, threads>>

\* dict.get(key, default)
get(d, key, default) == IF key \in DOMAIN d THEN d[key] ELSE default

\* product.update(fields) on the Product at index idx; the dict returned for
\* an invalid name (idx = 0) is in no list and the update is lost with it
\* update that puts the new fields in place of the Product's dict, keeping
\* only its identity
update_replacing(products, idx, fields) ==
  IF idx = 0 THEN products
  ELSE [products EXCEPT ![idx] =
          fields @@ [name |-> @.name, created_at |-> @.created_at]]

\* update that keeps the value a field already has
update_keeping(products, idx, fields) ==
  IF idx = 0 THEN products
  ELSE [products EXCEPT ![idx] = @ @@ fields]

update(products, idx, fields) ==
  IF idx = 0 THEN products
  ELSE [products EXCEPT ![idx] = fields @@ @]

(***************************************************************************)
(* find_or_create_product                                                  *)
(***************************************************************************)
MinNameLen == 3

\* new_product with one flag set from the start
new_product_flagged(clean_name, now) ==
  [ name            |-> clean_name,
    created_at      |-> now,
    has_trend_data  |-> FALSE,
    has_ali_data    |-> FALSE,
    has_amz_data    |-> TRUE,
    has_tiktok_data |-> FALSE ]

new_product(clean_name, now) ==
  [ name            |-> clean_name,
    created_at      |-> now,
    has_trend_data  |-> FALSE,
    has_ali_data    |-> FALSE,
    has_amz_data    |-> FALSE,
    has_tiktok_data |-> FALSE ]

\* the scan of find_or_create_product looking at the newest Product alone
SimilarTo_newest(products, clean_name) ==
  { i \in {Len(products)} \ {0} :
      are_similar_products(get(products[i], "name", << >>), clean_name) }

\* the indices of the Products the scan of find_or_create_product accepts
SimilarTo(products, clean_name) ==
  { i \in 1..Len(products) :
      are_similar_products(get(products[i], "name", << >>), clean_name) }

\* find_or_create_product putting a new Product at the head of the list
find_or_create_product_prepending(st, product_name) ==
  Let(clean_product_name(product_name), LAMBDA clean_name :
    IF Len(clean_name) = 0 \/ Len(clean_name) < MinNameLen
    THEN [st EXCEPT !.resolved = Append(@, 0)]
    ELSE Let(SimilarTo(st.products, clean_name), LAMBDA hits :
           IF hits # {}
           THEN [st EXCEPT !.resolved =
                   Append(@, CHOOSE i \in hits : \A j \in hits : i <= j)]
           ELSE [ products |-> <<new_product(clean_name, st.clock)>>
                                 \o st.products,
                  clock    |-> st.clock + 1,
                  resolved |-> Append(st.resolved, 1) ]))

\* find_or_create_product that takes only a Product of the very same name
find_or_create_product_exact(st, product_name) ==
  Let(clean_product_name(product_name), LAMBDA clean_name :
    IF Len(clean_name) = 0 \/ Len(clean_name) < MinNameLen
    THEN [st EXCEPT !.resolved = Append(@, 0)]
    ELSE Let({ i \in 1..Len(st.products) : st.products[i].name = clean_name },
             LAMBDA hits :
           IF hits # {}
           THEN [st EXCEPT !.resolved =
                   Append(@, CHOOSE i \in hits : \A j \in hits : i <= j)]
           ELSE [ products |-> Append(st.products,
                                      new_product(clean_name, st.clock)),
                  clock    |-> st.clock + 1,
                  resolved |-> Append(st.resolved, Len(st.products) + 1) ]))

\* find_or_create_product returning the last similar Product of the scan
find_or_create_product_last(st, product_name) ==
  Let(clean_product_name(product_name), LAMBDA clean_name :
    IF Len(clean_name) = 0 \/ Len(clean_name) < MinNameLen
    THEN [st EXCEPT !.resolved = Append(@, 0)]
    ELSE Let(SimilarTo(st.products, clean_name), LAMBDA hits :
           IF hits # {}
           THEN [st EXCEPT !.resolved =
                   Append(@, CHOOSE i \in hits : \A j \in hits : i >= j)]
           ELSE [ products |-> Append(st.products,
                                      new_product(clean_name, st.clock)),
                  clock    |-> st.clock + 1,
                  resolved |-> Append(st.resolved, Len(st.products) + 1) ]))

\* find_or_create_product without the check of the name's length
find_or_create_product_unguarded(st, product_name) ==
  Let(clean_product_name(product_name), LAMBDA clean_name :
    Let(SimilarTo(st.products, clean_name), LAMBDA hits :
      IF hits # {}
      THEN [st EXCEPT !.resolved =
              Append(@, CHOOSE i \in hits : \A j \in hits : i <= j)]
      ELSE [ products |-> Append(st.products,
                                 new_product(clean_name, st.clock)),
             clock    |-> st.clock + 1,
             resolved |-> Append(st.resolved, Len(st.products) + 1) ]))

\* st is [products, clock, resolved]; the result is st after the call, with
\* the index of the returned Product appended to resolved
\* find_or_create_product without the scan: every accepted name is appended
find_or_create_product_appending(st, product_name) ==
  Let(clean_product_name(product_name), LAMBDA clean_name :
    IF Len(clean_name) = 0 \/ Len(clean_name) < MinNameLen
    THEN [st EXCEPT !.resolved = Append(@, 0)]
    ELSE [ products |-> Append(st.products, new_product(clean_name, st.clock)),
           clock    |-> st.clock + 1,
           resolved |-> Append(st.resolved, Len(st.products) + 1) ])

find_or_create_product(st, product_name) ==
  Let(clean_product_name(product_name), LAMBDA clean_name :
    IF Len(clean_name) = 0 \/ Len(clean_name) < MinNameLen
    THEN [st EXCEPT !.resolved = Append(@, 0)]
    ELSE Let(SimilarTo(st.products, clean_name), LAMBDA hits :
           IF hits # {}
           THEN [st EXCEPT !.resolved =
                   Append(@, CHOOSE i \in hits : \A j \in hits : i <= j)]
           ELSE [ products |-> Append(st.products,
                                      new_product(clean_name, st.clock)),
                  clock    |-> st.clock + 1,
                  resolved |-> Append(st.resolved, Len(st.products) + 1) ]))

\* the Product the last find_or_create_product of st returned
Returned(st) == st.resolved[Len(st.resolved)]

\* product = self.find_or_create_product(product_name); product.update(fields)
FindAndUpdate(st, product_name, fields) ==
  Let(find_or_create_product(st, product_name), LAMBDA found :
    [found EXCEPT !.products = update(@, Returned(found), fields)])

(***************************************************************************)
(* Ingestion                                                               *)
(***************************************************************************)
DefaultBsr == 999

trend_fields(trend) ==
  [ trend_momentum     |-> get(trend, "momentum", 0),
    trend_avg_interest |-> get(trend, "avg_interest", 0),
    trend_max_interest |-> get(trend, "max_interest", 0),
    related_queries    |-> get(trend, "related_queries", << >>),
    has_trend_data     |-> TRUE ]

ali_fields(ali_product) ==
  [ ali_orders   |-> get(ali_product, "orders", 0),
    ali_reviews  |-> get(ali_product, "reviews", 0),
    ali_rating   |-> get(ali_product, "rating", 0),
    ali_price    |-> get(ali_product, "price", 0),
    ali_url      |-> get(ali_product, "url", ""),
    has_ali_data |-> TRUE ]

amz_fields(amz_product) ==
  [ amz_reviews  |-> get(amz_product, "reviews", 0),
    amz_rating   |-> get(amz_product, "rating", 0),
    amz_price    |-> get(amz_product, "price", 0),
    amz_bsr      |-> get(amz_product, "bsr", DefaultBsr),
    amz_is_prime |-> get(amz_product, "is_prime", FALSE),
    amz_url      |-> get(amz_product, "url", ""),
    has_amz_data |-> TRUE ]

RECURSIVE TrendLoop(_, _, _)
\* the loop of add_trend_data from the i-th record on
TrendLoop(st, trend_results, i) ==
  IF i > Len(trend_results) THEN st
  ELSE Let(FindAndUpdate(st, get(trend_results[i], "keyword", << >>),
                         trend_fields(trend_results[i])),
           LAMBDA merged : TrendLoop(merged, trend_results, i + 1))

add_trend_data(st, trend_results) == TrendLoop(st, trend_results, 1)

RECURSIVE AliLoop(_, _, _)
\* the loop of add_aliexpress_data from the i-th record on
AliLoop(st, aliexpress_products, i) ==
  IF i > Len(aliexpress_products) THEN st
  ELSE Let(clean_product_name(get(aliexpress_products[i], "name", << >>)),
           LAMBDA product_name :
       Let(FindAndUpdate(st, product_name, ali_fields(aliexpress_products[i])),
           LAMBDA merged : AliLoop(merged, aliexpress_products, i + 1)))

add_aliexpress_data(st, aliexpress_products) ==
  AliLoop(st, aliexpress_products, 1)

RECURSIVE AmazonLoop(_, _, _)
\* the loop of add_amazon_data from the i-th record on
AmazonLoop(st, amazon_products, i) ==
  IF i > Len(amazon_products) THEN st
  ELSE Let(clean_product_name(get(amazon_products[i], "name", << >>)),
           LAMBDA product_name :
       Let(FindAndUpdate(st, product_name, amz_fields(amazon_products[i])),
           LAMBDA merged : AmazonLoop(merged, amazon_products, i + 1)))

add_amazon_data(st, amazon_products) == AmazonLoop(st, amazon_products, 1)

(***************************************************************************)
(* extract_products_from_video                                             *)
(***************************************************************************)
RECURSIVE SkipWord(_, _)
\* greedy \w* from position i
SkipWord(s, i) ==
  IF i <= Len(s) /\ IsWord(s[i]) THEN SkipWord(s, i + 1) ELSE i

\* \w+\s+\w+ at position i: the position just after it, or 0
TwoWords(s, i) ==
  LET a == SkipWord(s, i)
      b == SkipSpace(s, a)
      c == SkipWord(s, b)
  IN  IF i >= 1 /\ a > i /\ b > a /\ c > b THEN c ELSE 0

\* \s+ at position i: the position just after it, or 0
Spaces(s, i) ==
  LET b == SkipSpace(s, i) IN IF i >= 1 /\ b > i THEN b ELSE 0

\* an alternation of literals at position i: the position just after the one
\* that matches, or 0 (no literal of an alternation here is a prefix of another)
Literal(s, i, words) ==
  LET hits == { w \in words : MatchAt(s, i, w) }
  IN  IF hits = {} THEN 0 ELSE i + Len(CHOOSE w \in hits : TRUE)

ReviewCues == { <<"r","e","v","i","e","w">>, <<"u","n","b","o","x","i","n","g">>,
                <<"h","a","u","l">> }

TryingCues == { <<"r","e","v","i","e","w">>, <<"t","r","y","i","n","g">>,
                <<"t","e","s","t","i","n","g">> }

FromCues == { <<"f","r","o","m">>, <<"o","n">> }

MarketCues == { <<"a","m","a","z","o","n">>,
                <<"a","l","i","e","x","p","r","e","s","s">> }

SuperlativeCues == { <<"a","m","a","z","i","n","g">>, <<"v","i","r","a","l">> }

\* amazing|viral|must.have at position i: the position just after it, or 0
Superlative(s, i) ==
  IF Literal(s, i, SuperlativeCues) # 0 THEN Literal(s, i, SuperlativeCues)
  ELSE IF /\ MatchAt(s, i, <<"m","u","s","t">>)
          /\ i + 4 <= Len(s)
          /\ s[i + 4] # "\n"
          /\ MatchAt(s, i + 5, <<"h","a","v","e">>)
  THEN i + 9
  ELSE 0

NoMatch == [end |-> 0, from |-> 0, to |-> 0]

\* product_patterns[p] matched at position i of s: the position just after the
\* match and the bounds of its group, or NoMatch
PatternAt(p, s, i) ==
  IF i < 1 \/ i > Len(s) THEN NoMatch
  ELSE CASE p = 1 ->
         \* (\w+\s+\w+)\s+(?:review|unboxing|haul)
         LET c == TwoWords(s, i)
             d == IF c = 0 THEN 0 ELSE Spaces(s, c)
             e == IF d = 0 THEN 0 ELSE Literal(s, d, ReviewCues)
         IN  IF e = 0 THEN NoMatch ELSE [end |-> e, from |-> i, to |-> c - 1]
       [] p = 2 ->
         \* (?:review|trying|testing)\s+(\w+\s+\w+)
         LET k == Literal(s, i, TryingCues)
             b == IF k = 0 THEN 0 ELSE Spaces(s, k)
             c == IF b = 0 THEN 0 ELSE TwoWords(s, b)
         IN  IF c = 0 THEN NoMatch ELSE [end |-> c, from |-> b, to |-> c - 1]
       [] p = 3 ->
         \* (\w+\s+\w+)\s+(?:from|on)\s+(?:amazon|aliexpress)
         LET c == TwoWords(s, i)
             d == IF c = 0 THEN 0 ELSE Spaces(s, c)
             f == IF d = 0 THEN 0 ELSE Literal(s, d, FromCues)
             g == IF f = 0 THEN 0 ELSE Spaces(s, f)
             h == IF g = 0 THEN 0 ELSE Literal(s, g, MarketCues)
         IN  IF h = 0 THEN NoMatch ELSE [end |-> h, from |-> i, to |-> c - 1]
       [] OTHER ->
         \* (?:amazing|viral|must.have)\s+(\w+(?:\s+\w+)?)
         LET k == Superlative(s, i)
             b == IF k = 0 THEN 0 ELSE Spaces(s, k)
             c == IF b = 0 THEN 0 ELSE SkipWord(s, b)
             d == IF c = 0 THEN 0 ELSE SkipSpace(s, c)
             e == IF c = 0 THEN 0 ELSE SkipWord(s, d)
         IN  IF b = 0 \/ c = b THEN NoMatch
             ELSE IF d > c /\ e > d THEN [end |-> e, from |-> b, to |-> e - 1]
             ELSE [end |-> c, from |-> b, to |-> c - 1]

RECURSIVE findall(_, _, _)
\* re.findall(product_patterns[p], s), scanning from position i: the groups
\* of the non-overlapping matches, leftmost first
findall(p, s, i) ==
  Let({ j \in i..Len(s) : PatternAt(p, s, j).end # 0 }, LAMBDA starts :
    IF starts = {} THEN << >>
    ELSE Let(PatternAt(p, s, CHOOSE j \in starts : \A k \in starts : j <= k),
             LAMBDA m : <<SubSeq(s, m.from, m.to)>> \o findall(p, s, m.end)))

\* str.strip()
strip(s) ==
  Let({ i \in 1..Len(s) : ~IsSpace(s[i]) }, LAMBDA solid :
    IF solid = {} THEN << >>
    ELSE SubSeq(s, CHOOSE i \in solid : \A j \in solid : i <= j,
                   CHOOSE i \in solid : \A j \in solid : i >= j))

\* viral, trending, fyp, foryou, tiktok
GenericHashtags ==
  { <<"v","i","r","a","l">>, <<"t","r","e","n","d","i","n","g">>,
    <<"f","y","p">>, <<"f","o","r","y","o","u">>, <<"t","i","k","t","o","k">> }

MinHashtagLen == 3

MinKeywordLen == 5

MinKeywordTokens == 2

MaxKeywordsPerVideo == 5

\* the set `products` that extract_products_from_video collects before it
\* cleans and filters
CandidateSet(title, hashtags) ==
  IF Len(title) = 0 THEN {}
  ELSE Let(lower(title), LAMBDA title_lower :
         LET fromTitle ==
               UNION { { strip(g) : g \in Range(findall(p, title_lower, 1)) }
                       : p \in 1..4 }
             fromTags ==
               { hashtags[i] : i \in
                   { k \in 1..Len(hashtags) :
                       /\ lower(hashtags[k]) \notin GenericHashtags
                       /\ Len(hashtags[k]) > MinHashtagLen } }
         IN  fromTitle \cup fromTags)

\* the orders in which a Python set may be iterated
IterationOrders(S) ==
  { f \in [1..Cardinality(S) -> S] : \A x \in S : \E i \in DOMAIN f : f[i] = x }

RECURSIVE CleanAndFilter(_, _)
\* the loop "for product in products" over the set in the iteration order
\* given, from its i-th member on
CleanAndFilter(order, i) ==
  IF i > Len(order) THEN << >>
  ELSE Let(clean_product_name(order[i]), LAMBDA cleaned :
         IF /\ Len(cleaned) > MinKeywordLen
            /\ Len(split(cleaned, 1)) >= MinKeywordTokens
         THEN <<cleaned>> \o CleanAndFilter(order, i + 1)
         ELSE CleanAndFilter(order, i + 1))

\* extract_products_from_video when the set of candidates is iterated in the
\* order given (a member of IterationOrders(CandidateSet(title, hashtags)))
extract_products_from_video(order) ==
  Let(CleanAndFilter(order, 1), LAMBDA cleaned_products :
    SubSeq(cleaned_products, 1,
           IF Len(cleaned_products) < MaxKeywordsPerVideo
           THEN Len(cleaned_products) ELSE MaxKeywordsPerVideo))

(***************************************************************************)
(* add_tiktok_data                                                         *)
(***************************************************************************)
MaxSampleVideos == 3

\* the position of product_keyword in the dict product_mentions (0: absent)
MentionIndex(product_mentions, product_keyword) ==
  LET hits == { i \in 1..Len(product_mentions) :
                  product_mentions[i].keyword = product_keyword }
  IN  IF hits = {} THEN 0 ELSE CHOOSE i \in hits : TRUE

\* product_mentions[product_keyword] of a keyword first met
NewMention(product_keyword) ==
  [ keyword |-> product_keyword, videos |-> << >>, total_views |-> 0,
    total_likes |-> 0, total_comments |-> 0, total_shares |-> 0,
    sample_url |-> "" ]

\* the body of "for product_keyword in potential_products" for one keyword
Mention(product_mentions, product_keyword, video) ==
  Let(MentionIndex(product_mentions, product_keyword), LAMBDA at :
  Let(IF at # 0 THEN product_mentions
      ELSE Append(product_mentions, NewMention(product_keyword)),
      LAMBDA entries :
        LET i == IF at # 0 THEN at ELSE Len(entries)
            e == entries[i]
        IN  [entries EXCEPT ![i] =
               [ keyword        |-> e.keyword,
                 videos         |-> Append(e.videos, video),
                 total_views    |-> e.total_views + get(video, "views", 0),
                 total_likes    |-> e.total_likes + get(video, "likes", 0),
                 total_comments |-> e.total_comments + get(video, "comments", 0),
                 total_shares   |-> e.total_shares + get(video, "shares", 0),
                 sample_url     |->
                   IF e.sample_url = "" /\ get(video, "url", "") # ""
                   THEN video.url ELSE e.sample_url ]]))

RECURSIVE MentionAll(_, _, _, _)
\* the loop "for product_keyword in potential_products" from the k-th on
MentionAll(product_mentions, potential_products, video, k) ==
  IF k > Len(potential_products) THEN product_mentions
  ELSE Let(Mention(product_mentions, potential_products[k], video),
           LAMBDA mentions :
             MentionAll(mentions, potential_products, video, k + 1))

RECURSIVE GroupVideos(_, _, _, _)
\* the first loop of add_tiktok_data from the i-th video on; orders[i] is the
\* order in which the set of candidates of the i-th video is iterated
GroupVideos(product_mentions, tiktok_videos, orders, i) ==
  IF i > Len(tiktok_videos) THEN product_mentions
  ELSE IF DOMAIN tiktok_videos[i] = {}
  THEN GroupVideos(product_mentions, tiktok_videos, orders, i + 1)
  ELSE Let(extract_products_from_video(orders[i]), LAMBDA potential_products :
       Let(MentionAll(product_mentions, potential_products, tiktok_videos[i], 1),
           LAMBDA mentions :
             GroupVideos(mentions, tiktok_videos, orders, i + 1)))

Max(a, b) == IF a >= b THEN a ELSE b

Min(a, b) == IF a <= b THEN a ELSE b

\* tiktok_avg_views, the quotient total_views / max(video_count, 1), is kept
\* as the pair of its numerator and denominator
tiktok_fields(mention_data) ==
  LET video_count == Len(mention_data.videos)
  IN  [ tiktok_video_count     |-> video_count,
        tiktok_total_views     |-> mention_data.total_views,
        tiktok_total_likes     |-> mention_data.total_likes,
        tiktok_total_comments  |-> mention_data.total_comments,
        tiktok_total_shares    |-> mention_data.total_shares,
        tiktok_avg_views       |-> <<mention_data.total_views, Max(video_count, 1)>>,
        tiktok_url             |-> mention_data.sample_url,
        tiktok_sample_videos   |-> SubSeq(mention_data.videos, 1,
                                          Min(video_count, MaxSampleVideos)),
        has_tiktok_data        |-> TRUE ]

RECURSIVE AddMentions_accumulating(_, _, _)
\* the second loop of add_tiktok_data with the video count added to the
\* count the Product already has
AddMentions_accumulating(st, product_mentions, i) ==
  IF i > Len(product_mentions) THEN st
  ELSE Let(find_or_create_product(st, product_mentions[i].keyword),
           LAMBDA found :
             LET idx == Returned(found)
                 fields == tiktok_fields(product_mentions[i])
                 old == IF idx = 0 THEN 0
                        ELSE get(found.products[idx], "tiktok_video_count", 0)
             IN  AddMentions_accumulating(
                   [found EXCEPT !.products =
                      update(@, idx, [fields EXCEPT
                                        !.tiktok_video_count = @ + old])],
                   product_mentions, i + 1))

RECURSIVE AddMentions(_, _, _)
\* the second loop of add_tiktok_data, from the i-th keyword on
AddMentions(st, product_mentions, i) ==
  IF i > Len(product_mentions) THEN st
  ELSE Let(FindAndUpdate(st, product_mentions[i].keyword,
                         tiktok_fields(product_mentions[i])),
           LAMBDA merged : AddMentions(merged, product_mentions, i + 1))

add_tiktok_data(st, tiktok_videos, orders) ==
  Let(GroupVideos(<< >>, tiktok_videos, orders, 1), LAMBDA product_mentions :
    AddMentions(st, product_mentions, 1))

\* the iteration orders add_tiktok_data may meet, one per video
VideoOrders(tiktok_videos) ==
  Let([i \in 1..Len(tiktok_videos) |->
         IterationOrders(
           CandidateSet(get(tiktok_videos[i], "title", << >>),
                        get(tiktok_videos[i], "hashtags", << >>)))],
      LAMBDA per_video :
        { orders \in [1..Len(tiktok_videos) -> UNION Range(per_video)] :
            \A i \in 1..Len(tiktok_videos) : orders[i] \in per_video[i] })

(***************************************************************************)
(* Numbers of the scoring stage: a float is a fraction in lowest terms      *)
(***************************************************************************)
RECURSIVE Gcd(_, _)
Gcd(a, b) == IF b = 0 THEN a ELSE Gcd(b, a % b)

Abs(x) == IF x < 0 THEN 0 - x ELSE x

\* n / d for d > 0
Fraction(n, d) ==
  Let(Gcd(Abs(n), d), LAMBDA g : [num |-> n \div g, den |-> d \div g])

Lcm(a, b) == (a \div Gcd(a, b)) * b

Plus(x, y) ==
  Let(Lcm(x.den, y.den), LAMBDA l :
    Fraction(x.num * (l \div x.den) + y.num * (l \div y.den), l))

Times(x, y) ==
  Let(Gcd(Abs(x.num), y.den), LAMBDA g1 :
  Let(Gcd(Abs(y.num), x.den), LAMBDA g2 :
    Fraction((x.num \div g1) * (y.num \div g2),
             (x.den \div g2) * (y.den \div g1))))

Less(x, y) ==
  Let(Lcm(x.den, y.den), LAMBDA l :
    x.num * (l \div x.den) < y.num * (l \div y.den))

\* Series.clip(0, 1)
clip(x) ==
  IF x.num < 0 THEN Fraction(0, 1)
  ELSE IF x.num > x.den THEN Fraction(1, 1)
  ELSE x

\* round(x * 10^digits) for x >= 0, ties to the even neighbour
RECURSIVE Shift(_, _, _, _)
Shift(whole, rest, den, digits) ==
  IF digits = 0
  THEN IF 2 * rest > den \/ (2 * rest = den /\ whole % 2 = 1)
       THEN whole + 1 ELSE whole
  ELSE Shift(whole * 10 + (rest * 10) \div den, (rest * 10) % den, den,
             digits - 1)

\* round(x, 3), in thousandths
round3(x) == Shift(x.num \div x.den, x.num % x.den, x.den, 3)

(***************************************************************************)
(* normalize_scores                                                        *)
(***************************************************************************)
\* a DataFrame: its columns and its rows in order; a row keeps the index of
\* the Product it was made from, and a cell that is NaN is a column outside
\* the domain of the row's cells
Unset == [set |-> FALSE, columns |-> {}, rows |-> << >>]

\* pd.DataFrame(self.products_data)
DataFrame(products) ==
  [ set     |-> TRUE,
    columns |-> UNION { DOMAIN products[i] : i \in 1..Len(products) },
    rows    |-> [i \in 1..Len(products) |->
                   [index |-> i, cells |-> products[i]]] ]

\* trend_momentum is in tenths, as the records carry it
metrics_config ==
  [ trend_momentum     |-> [min_val |-> -20, max_val |-> 20, reverse |-> FALSE],
    trend_avg_interest |-> [min_val |-> 0, max_val |-> 100, reverse |-> FALSE],
    ali_orders         |-> [min_val |-> 0, max_val |-> 50000, reverse |-> FALSE],
    ali_reviews        |-> [min_val |-> 0, max_val |-> 5000, reverse |-> FALSE],
    amz_reviews        |-> [min_val |-> 0, max_val |-> 50000, reverse |-> FALSE],
    amz_bsr            |-> [min_val |-> 1, max_val |-> 1000, reverse |-> TRUE],
    tiktok_total_views |-> [min_val |-> 0, max_val |-> 10000000,
                            reverse |-> FALSE],
    tiktok_video_count |-> [min_val |-> 0, max_val |-> 100, reverse |-> FALSE] ]

Metrics == DOMAIN metrics_config

\* f'{metric}_normalized'
NormalizedName(metric) == metric \o "_normalized"

\* the column of one value without the clip to the 0-1 range
normalize_unclipped(v, config) ==
  IF config.max_val > config.min_val
  THEN IF config.reverse
       THEN Plus(Fraction(1, 1),
                 Fraction(0 - (v - config.min_val),
                          config.max_val - config.min_val))
       ELSE Fraction(v - config.min_val, config.max_val - config.min_val)
  ELSE Fraction(1, 2)

\* the column of one value after "Normalize each metric"
normalize(v, config) ==
  IF config.max_val > config.min_val
  THEN clip(IF config.reverse
            THEN Plus(Fraction(1, 1),
                      Fraction(0 - (v - config.min_val),
                               config.max_val - config.min_val))
            ELSE Fraction(v - config.min_val,
                          config.max_val - config.min_val))
  ELSE Fraction(1, 2)

\* the cells of a row after the fill loop and the normalization loop
\* NormalizedCells with a missing rank filled with the worst rank of the
\* configured range instead of 0
NormalizedCells_worst_rank(cells) ==
  Let(cells @@ [m \in Metrics |->
                  IF m = "amz_bsr" THEN metrics_config[m].max_val ELSE 0],
      LAMBDA filled :
    [c \in { NormalizedName(m) : m \in Metrics } |->
       LET m == CHOOSE m \in Metrics : NormalizedName(m) = c
       IN  normalize(filled[m], metrics_config[m])]
    @@ filled)

NormalizedCells(cells) ==
  Let(cells @@ [m \in Metrics |-> 0], LAMBDA filled :
    [c \in { NormalizedName(m) : m \in Metrics } |->
       LET m == CHOOSE m \in Metrics : NormalizedName(m) = c
       IN  normalize(filled[m], metrics_config[m])]
    @@ filled)

\* the frame normalize_scores builds from a list of Products that is not
\* empty
NormalizedFrame(products) ==
  Let(DataFrame(products), LAMBDA df :
    [ set     |-> TRUE,
      columns |-> df.columns \cup Metrics
                    \cup { NormalizedName(m) : m \in Metrics },
      rows    |-> [i \in 1..Len(df.rows) |->
                     [ index |-> df.rows[i].index,
                       cells |-> NormalizedCells(df.rows[i].cells) ]] ])

\* self.normalized_df after normalize_scores(), which returns early on an
\* empty list of Products
normalize_scores(products, normalized) ==
  IF Len(products) = 0 THEN normalized ELSE NormalizedFrame(products)

(***************************************************************************)
(* calculate_composite_scores                                              *)
(***************************************************************************)
\* the weights with a competition penalty of three times the size
weights_heavier_penalty ==
  [ trend_momentum      |-> Fraction(35, 100),
    aliexpress_velocity |-> Fraction(25, 100),
    tiktok_virality     |-> Fraction(20, 100),
    amazon_popularity   |-> Fraction(15, 100),
    competition_penalty |-> Fraction(-30, 100) ]

weights ==
  [ trend_momentum      |-> Fraction(35, 100),
    aliexpress_velocity |-> Fraction(25, 100),
    tiktok_virality     |-> Fraction(20, 100),
    amazon_popularity   |-> Fraction(15, 100),
    competition_penalty |-> Fraction(-10, 100) ]

\* a * x + b * y with a and b taken as whole numbers
Blend_unscaled(a, x, b, y) ==
  Plus(Times(x, Fraction(a, 1)), Times(y, Fraction(b, 1)))

\* a * x + b * y with a and b in tenths
Blend(a, x, b, y) ==
  Plus(Times(x, Fraction(a, 10)), Times(y, Fraction(b, 10)))

\* the component scores of a row with momentum and interest weighted alike
ComponentScores_even_trend(cells) ==
  [ trend_score |->
      Blend(5, cells["trend_momentum_normalized"],
            5, cells["trend_avg_interest_normalized"]),
    ali_velocity_score |->
      Blend(6, cells["ali_orders_normalized"],
            4, cells["ali_reviews_normalized"]),
    amz_popularity_score |->
      Blend(5, cells["amz_reviews_normalized"],
            5, cells["amz_bsr_normalized"]),
    tiktok_virality_score |->
      Blend(7, cells["tiktok_total_views_normalized"],
            3, cells["tiktok_video_count_normalized"]),
    competition_score |->
      Times(Plus(cells["amz_reviews_normalized"],
                 cells["ali_reviews_normalized"]), Fraction(1, 2)) ]

\* the component scores of a row
ComponentScores(cells) ==
  [ trend_score |->
      Blend(7, cells["trend_momentum_normalized"],
            3, cells["trend_avg_interest_normalized"]),
    ali_velocity_score |->
      Blend(6, cells["ali_orders_normalized"],
            4, cells["ali_reviews_normalized"]),
    amz_popularity_score |->
      Blend(5, cells["amz_reviews_normalized"],
            5, cells["amz_bsr_normalized"]),
    tiktok_virality_score |->
      Blend(7, cells["tiktok_total_views_normalized"],
            3, cells["tiktok_video_count_normalized"]),
    competition_score |->
      Times(Plus(cells["amz_reviews_normalized"],
                 cells["ali_reviews_normalized"]), Fraction(1, 2)) ]

\* the weighted sum without the competition penalty
WeightedSum_without_penalty(scores) ==
  Plus(Plus(Plus(
    Times(scores.trend_score, weights.trend_momentum),
    Times(scores.ali_velocity_score, weights.aliexpress_velocity)),
    Times(scores.tiktok_virality_score, weights.tiktok_virality)),
    Times(scores.amz_popularity_score, weights.amazon_popularity))

\* the weighted sum before the clip
WeightedSum(scores) ==
  Plus(Plus(Plus(Plus(
    Times(scores.trend_score, weights.trend_momentum),
    Times(scores.ali_velocity_score, weights.aliexpress_velocity)),
    Times(scores.tiktok_virality_score, weights.tiktok_virality)),
    Times(scores.amz_popularity_score, weights.amazon_popularity)),
    Times(scores.competition_score, weights.competition_penalty))

\* the cells of a row with the component scores and the composite score
ScoredCells(cells) ==
  Let(ComponentScores(cells), LAMBDA scores :
    [composite_score |-> clip(WeightedSum(scores))] @@ scores @@ cells)

ScoreColumns ==
  { "trend_score", "ali_velocity_score", "amz_popularity_score",
    "tiktok_virality_score", "competition_score", "composite_score" }

RECURSIVE SortedOrders(_, _)
\* df.sort_values('composite_score', ascending=False) of the rows numbered
\* in S: the sort is pandas' default, which is not a stable one, so rows of
\* equal score may come out in any order
SortedOrders(rows, S) ==
  IF S = {} THEN { << >> }
  ELSE LET best == { i \in S : \A j \in S :
                       ~Less(rows[i].cells.composite_score,
                             rows[j].cells.composite_score) }
       IN  UNION { { <<rows[i]>> \o rest :
                       rest \in SortedOrders(rows, S \ {i}) } : i \in best }

\* the frames calculate_composite_scores may build from normalized_df
ScoredFrames(normalized) ==
  Let([i \in 1..Len(normalized.rows) |->
         [ index |-> normalized.rows[i].index,
           cells |-> ScoredCells(normalized.rows[i].cells) ]], LAMBDA rows :
    { [ set |-> TRUE, columns |-> normalized.columns \cup ScoreColumns,
        rows |-> sorted ] : sorted \in SortedOrders(rows, DOMAIN rows) })

\* the outcomes of calculate_composite_scores: the two frames afterwards and
\* the exception raised ("" for none); with no normalized_df and no
\* Products, self.normalized_df.copy() raises AttributeError
calculate_composite_scores(products, normalized, scored) ==
  Let(IF normalized.set THEN normalized
      ELSE normalize_scores(products, normalized), LAMBDA df :
    IF ~df.set
    THEN { [normalized_df |-> df, scored_df |-> scored,
            raised |-> "AttributeError"] }
    ELSE { [normalized_df |-> df, scored_df |-> sorted, raised |-> ""] :
             sorted \in ScoredFrames(df) })

\* "if not hasattr(self, 'scored_df'): self.calculate_composite_scores()"
EnsureScored(products, normalized, scored) ==
  IF scored.set
  THEN { [normalized_df |-> normalized, scored_df |-> scored, raised |-> ""] }
  ELSE calculate_composite_scores(products, normalized, scored)

(***************************************************************************)
(* get_top_products                                                        *)
(***************************************************************************)
\* n / d rounded to the nearest whole number, ties to the even neighbour
RoundedQuotient(n, d) == Shift(n \div d, n % d, d, 0)

\* format_number: the digits before the point, the digits after it and the
\* unit
format_number(num) ==
  IF num >= 1000000
  THEN Let(RoundedQuotient(num, 100000), LAMBDA tenths :
         [whole |-> tenths \div 10, decimals |-> <<tenths % 10>>, unit |-> "M"])
  ELSE IF num >= 1000
  THEN Let(RoundedQuotient(num, 100), LAMBDA tenths :
         [whole |-> tenths \div 10, decimals |-> <<tenths % 10>>, unit |-> "K"])
  ELSE [whole |-> num, decimals |-> << >>, unit |-> ""]

get_data_sources(cells) ==
  (IF get(cells, "has_trend_data", FALSE) THEN <<"Google Trends">> ELSE << >>)
  \o (IF get(cells, "has_ali_data", FALSE) THEN <<"AliExpress">> ELSE << >>)
  \o (IF get(cells, "has_amz_data", FALSE) THEN <<"Amazon">> ELSE << >>)
  \o (IF get(cells, "has_tiktok_data", FALSE) THEN <<"TikTok">> ELSE << >>)

\* the column each key of a display record is read from and the default of
\* row.get when the frame has no such column
display_columns ==
  [ product_name       |-> [column |-> "name", default |-> << >>],
    score              |-> [column |-> "composite_score", default |-> 0],
    trend_momentum     |-> [column |-> "trend_momentum", default |-> 0],
    trend_slope        |-> [column |-> "trend_momentum", default |-> 0],
    ali_orders         |-> [column |-> "ali_orders", default |-> 0],
    orders             |-> [column |-> "ali_orders", default |-> 0],
    ali_reviews        |-> [column |-> "ali_reviews", default |-> 0],
    amz_reviews        |-> [column |-> "amz_reviews", default |-> 0],
    reviews            |-> [column |-> "amz_reviews", default |-> 0],
    tiktok_total_views |-> [column |-> "tiktok_total_views", default |-> 0],
    tiktok_views       |-> [column |-> "tiktok_total_views", default |-> 0],
    tiktok_videos      |-> [column |-> "tiktok_video_count", default |-> 0],
    ali_url            |-> [column |-> "ali_url", default |-> ""],
    link_ali           |-> [column |-> "ali_url", default |-> ""],
    amz_url            |-> [column |-> "amz_url", default |-> ""],
    link_amazon        |-> [column |-> "amz_url", default |-> ""],
    tiktok_url         |-> [column |-> "tiktok_url", default |-> ""],
    link_tiktok        |-> [column |-> "tiktok_url", default |-> ""],
    related_queries    |-> [column |-> "related_queries", default |-> << >>],
    ali_price          |-> [column |-> "ali_price", default |-> 0],
    amz_price          |-> [column |-> "amz_price", default |-> 0],
    ali_rating         |-> [column |-> "ali_rating", default |-> 0],
    amz_rating         |-> [column |-> "amz_rating", default |-> 0] ]

\* the dict get_top_products builds from a row; a key whose value is NaN is
\* outside the domain (row.get gives NaN, not the default, when the frame
\* has the column and the row no value in it)
DisplayRecord(columns, cells) ==
  LET keys == { k \in DOMAIN display_columns :
                  display_columns[k].column \in columns
                    => display_columns[k].column \in DOMAIN cells }
  IN  [k \in keys \cup {"data_sources"} |->
         IF k = "data_sources" THEN get_data_sources(cells)
         ELSE IF display_columns[k].column \notin columns
              THEN IF k = "tiktok_views"
                   THEN format_number(display_columns[k].default)
                   ELSE display_columns[k].default
         ELSE IF k = "score" THEN round3(cells[display_columns[k].column])
         ELSE IF k = "tiktok_views"
              THEN format_number(cells[display_columns[k].column])
         ELSE cells[display_columns[k].column]]

\* the list get_top_products builds from self.scored_df.head(n)
TopProducts(scored, n) ==
  [i \in 1..Min(n, Len(scored.rows)) |->
     DisplayRecord(scored.columns, scored.rows[i].cells)]

\* the outcomes of get_top_products(n): the frames afterwards, the list
\* returned and the exception raised
get_top_products(products, normalized, scored, n) ==
  { IF out.raised # ""
    THEN [normalized_df |-> out.normalized_df, scored_df |-> out.scored_df,
          result |-> << >>, raised |-> out.raised]
    ELSE [normalized_df |-> out.normalized_df, scored_df |-> out.scored_df,
          result |-> TopProducts(out.scored_df, n), raised |-> ""] :
    out \in EnsureScored(products, normalized, scored) }

(***************************************************************************)
(* export_to_csv                                                           *)
(***************************************************************************)
csv_columns ==
  { "product_name", "score", "trend_momentum", "trend_slope", "ali_orders",
    "orders", "ali_reviews", "amz_reviews", "reviews", "tiktok_total_views",
    "tiktok_views", "tiktok_videos", "ali_price", "amz_price", "ali_rating",
    "amz_rating", "link_ali", "link_amazon", "link_tiktok", "data_sources",
    "related_queries" }

MaxExportedQueries == 3

RECURSIVE JoinWith(_, _, _)
\* separator.join(list) from the i-th member on, the members and the
\* separator being sequences
JoinWith(list, separator, i) ==
  IF i > Len(list) THEN << >>
  ELSE IF i = Len(list) THEN list[i]
  ELSE list[i] \o separator \o JoinWith(list, separator, i + 1)

\* the row written for a display record that has its related queries
CsvRow(product) ==
  [k \in DOMAIN product \cap csv_columns |->
     IF k = "data_sources"
     THEN JoinWith([i \in 1..Len(product.data_sources) |->
                      <<product.data_sources[i]>>], <<"; ">>, 1)
     ELSE IF k = "related_queries"
     THEN JoinWith(SubSeq(product.related_queries, 1,
                          Min(Len(product.related_queries),
                              MaxExportedQueries)),
                   <<";", " ">>, 1)
     ELSE product[k]]

\* the display records before the first one whose related_queries is NaN:
\* for that one row.get('related_queries', [])[:3] raises TypeError
Writable(top_products) ==
  LET bad == { i \in 1..Len(top_products) :
                 "related_queries" \notin DOMAIN top_products[i] }
  IN  IF bad = {} THEN top_products
      ELSE SubSeq(top_products, 1, (CHOOSE i \in bad : \A j \in bad : i <= j) - 1)

NoFile == [exists |-> FALSE, rows |-> << >>]

\* the outcomes of export_to_csv(filename, top_n): the frames and the file
\* afterwards, the value returned and the exception raised; a file that
\* exists has the header line and then its rows
export_to_csv(products, normalized, scored, file, top_n) ==
  { IF out.raised # ""
    THEN [normalized_df |-> out.normalized_df, scored_df |-> out.scored_df,
          csv_file |-> file, result |-> FALSE, raised |-> out.raised]
    ELSE Let(TopProducts(out.scored_df, top_n), LAMBDA top_products :
           IF Len(top_products) = 0
           THEN [normalized_df |-> out.normalized_df,
                 scored_df |-> out.scored_df, csv_file |-> file,
                 result |-> FALSE, raised |-> ""]
           ELSE Let(Writable(top_products), LAMBDA written :
                  [ normalized_df |-> out.normalized_df,
                    scored_df |-> out.scored_df,
                    csv_file |-> [ exists |-> TRUE,
                                   rows |-> [i \in 1..Len(written) |->
                                               CsvRow(written[i])] ],
                    result |-> Len(written) = Len(top_products),
                    raised |-> "" ])) :
    out \in EnsureScored(products, normalized, scored) }

(***************************************************************************)
(* get_summary_stats                                                       *)
(***************************************************************************)
RECURSIVE Sum(_, _)
\* the sum of the composite scores of the rows from the i-th on
Sum(rows, i) ==
  IF i > Len(rows) THEN Fraction(0, 1)
  ELSE Plus(rows[i].cells.composite_score, Sum(rows, i + 1))

\* the number of rows that satisfy the test
Count(rows, Test(_)) == Cardinality({ i \in 1..Len(rows) : Test(rows[i].cells) })

SummaryStats(scored) ==
  LET rows == scored.rows
      sources(cells) ==
        Len(get_data_sources(cells))
  IN  [ total_products |-> Len(rows),
        products_with_trend_data |->
          Count(rows, LAMBDA cells : cells.has_trend_data),
        products_with_ali_data |->
          Count(rows, LAMBDA cells : cells.has_ali_data),
        products_with_amz_data |->
          Count(rows, LAMBDA cells : cells.has_amz_data),
        products_with_tiktok_data |->
          Count(rows, LAMBDA cells : cells.has_tiktok_data),
        avg_composite_score |->
          round3(Times(Sum(rows, 1), Fraction(1, Len(rows)))),
        top_score |->
          round3(rows[1].cells.composite_score),
        products_with_multiple_sources |->
          Count(rows, LAMBDA cells : sources(cells) >= 2) ]

\* the outcomes of get_summary_stats
get_summary_stats(products, normalized, scored) ==
  { IF out.raised # ""
    THEN [normalized_df |-> out.normalized_df, scored_df |-> out.scored_df,
          result |-> << >>, raised |-> out.raised]
    ELSE [normalized_df |-> out.normalized_df, scored_df |-> out.scored_df,
          result |-> SummaryStats(out.scored_df), raised |-> ""] :
    out \in EnsureScored(products, normalized, scored) }

(***************************************************************************)
(* Inputs                                                                  *)
(***************************************************************************)
wCar == <<"C","a","r">>
wPhone == <<"P","h","o","n","e">>
wHolder == <<"H","o","l","d","e","r">>
wMount == <<"M","o","u","n","t">>
wStand == <<"S","t","a","n","d">>
wWireless == <<"W","i","r","e","l","e","s","s">>
wEarbuds == <<"E","a","r","b","u","d","s">>
wLED == <<"L","E","D">>
wStrip == <<"S","t","r","i","p">>
wLights == <<"L","i","g","h","t","s">>
wNew == <<"N","e","w">>
wHot == <<"H","o","t">>
wBest == <<"B","e","s","t">>
wKit == <<"K","i","t">>
wAb == <<"a","b">>
w12 == <<"1","2">>
wPcs == <<"p","c","s">>
wTesting == <<"T","e","s","t","i","n","g">>
wFrom == <<"f","r","o","m">>
wAmazon == <<"A","m","a","z","o","n">>
wViral == <<"v","i","r","a","l">>
wX == <<"x">>

nCarPhoneHolderMount == join(<<wCar, wPhone, wHolder, wMount>>)
nPhoneHolderCarMount == join(<<wPhone, wHolder, wCar, wMount>>)
nCarPhoneHolderStand == join(<<wCar, wPhone, wHolder, wStand>>)
nCarPhoneHolderMountStand == join(<<wCar, wPhone, wHolder, wMount, wStand>>)
nWirelessEarbuds == join(<<wWireless, wEarbuds>>)
nLedStripLights == join(<<wLED, wStrip, wLights>>)
nBestWirelessEarbudsKit == join(<<wBest, wWireless, wEarbuds, wKit>>)
nNewHotCarMount == join(<<wNew, wHot, wCar, wMount>>)
nHotAb == join(<<wHot, wAb>>)
n12Pcs == join(<<w12, wPcs>>)

\* "Testing Wireless Earbuds from Amazon"
tTestingEarbuds == join(<<wTesting, wWireless, wEarbuds, wFrom, wAmazon>>)
\* "viral LED Lights"
tViralLedLights == join(<<wViral, wLED, wLights>>)
\* the hashtag "LED.Lights"
hLedLights == wLED \o <<".">> \o wLights
\* the hashtag "Hot Hot ab"
hHotHotAb == join(<<wHot, wHot, wAb>>)
hEarbuds == wEarbuds

\* momentum in tenths, rating in tenths, price in cents
TrendRecords ==
  { [ keyword |-> nCarPhoneHolderMount, momentum |-> 12, avg_interest |-> 45,
      max_interest |-> 80, related_queries |-> <<nCarPhoneHolderStand>> ],
    [ keyword |-> nCarPhoneHolderStand, momentum |-> 8 ],
    [ keyword |-> nHotAb, momentum |-> -3, avg_interest |-> 10 ] }

AliRecords ==
  { [ name |-> nPhoneHolderCarMount, orders |-> 12500, reviews |-> 856,
      rating |-> 43, price |-> 1599, url |-> "https://aliexpress.com/item1" ],
    [ name |-> nCarPhoneHolderMount, orders |-> 8900 ],
    [ orders |-> 10, url |-> "https://aliexpress.com/item2" ] }

AmazonRecords ==
  { [ name |-> nCarPhoneHolderMountStand, reviews |-> 3400, rating |-> 42,
      price |-> 1899, bsr |-> 15, is_prime |-> TRUE,
      url |-> "https://amazon.com/item1" ],
    [ name |-> nBestWirelessEarbudsKit, reviews |-> 8500 ],
    [ name |-> n12Pcs, reviews |-> 7, bsr |-> 3 ] }

TikTokVideos ==
  { [ title |-> tTestingEarbuds, hashtags |-> <<hEarbuds>>, views |-> 1200000,
      likes |-> 67000, comments |-> 2100, shares |-> 5600,
      url |-> "https://tiktok.com/video3" ],
    [ title |-> tViralLedLights, hashtags |-> <<hLedLights>>, views |-> 850000 ],
    [ title |-> wX, hashtags |-> <<hHotHotAb>>, views |-> 5, likes |-> 1,
      url |-> "https://tiktok.com/video4" ],
    << >> }

MaxRecords == 2

MaxCalls == 2

\* the lists of at most MaxRecords different records of the set U
Lists(U) ==
  { l \in UNION { [1..n -> U] : n \in 0..MaxRecords } :
      \A i, j \in DOMAIN l : i # j => l[i] # l[j] }

TrendLists == Lists(TrendRecords)

AliLists == Lists(AliRecords)

AmazonLists == Lists(AmazonRecords)

TikTokLists == Lists(TikTokVideos)

(***************************************************************************)
(* Actions                                                                 *)
(***************************************************************************)
Start == [products |-> products_data, clock |-> clock, resolved |-> << >>]

Ingest(op, args, st) ==
  /\ products_data' = st.products
  /\ clock' = st.clock
  /\ calls' = calls + 1
  /\ last' = [op |-> op, args |-> args, resolved |-> st.resolved]
  /\ UNCHANGED pipeline

AddTrendData(lists) ==
  /\ calls < MaxCalls
  /\ \E trend_results \in lists :
       Ingest("add_trend_data", trend_results,
              add_trend_data(Start, trend_results))

AddAliexpressData(lists) ==
  /\ calls < MaxCalls
  /\ \E aliexpress_products \in lists :
       Ingest("add_aliexpress_data", aliexpress_products,
              add_aliexpress_data(Start, aliexpress_products))

AddAmazonData(lists) ==
  /\ calls < MaxCalls
  /\ \E amazon_products \in lists :
       Ingest("add_amazon_data", amazon_products,
              add_amazon_data(Start, amazon_products))

AddTikTokData(lists) ==
  /\ calls < MaxCalls
  /\ \E tiktok_videos \in lists :
       \E orders \in VideoOrders(tiktok_videos) :
         Ingest("add_tiktok_data", tiktok_videos,
                add_tiktok_data(Start, tiktok_videos, orders))

\* a new ProductNormalizer apart from what the last call was
Constructed ==
  /\ products_data = << >>
  /\ clock = 0
  /\ calls = 0
  /\ normalized_df = Unset
  /\ scored_df = Unset
  /\ csv_file = NoFile
  /\ ops = 0
  /\ threads = << >>

Init ==
  /\ Constructed
  /\ last = [op |-> "__init__", args |-> << >>, resolved |-> << >>]

Next ==
  \/ AddTrendData(TrendLists)
  \/ AddAliexpressData(AliLists)
  \/ AddAmazonData(AmazonLists)
  \/ AddTikTokData(TikTokLists)

Spec == Init /\ [][Next]_vars

(***************************************************************************)
(* Two records from two sources: from the empty Product set, one call of   *)
(* a name-carrying handler with a single record, then one call of another  *)
(* handler with a single record.  last.first keeps the first call.         *)
(***************************************************************************)
wGadget == <<"G","a","d","g","e","t">>

nNewHotGadget == join(<<wNew, wHot, wGadget>>)

nHotHotGadget == join(<<wHot, wHot, wGadget>>)

PairNames ==
  { nCarPhoneHolderMount, nPhoneHolderCarMount, nCarPhoneHolderStand,
    nWirelessEarbuds, nLedStripLights, nBestWirelessEarbudsKit,
    nNewHotCarMount, nNewHotGadget, nHotHotGadget, nHotAb }

NamedSources == {"add_trend_data", "add_aliexpress_data", "add_amazon_data"}

\* a record of the source that carries the name
NamedRecord(op, name) ==
  CASE op = "add_trend_data" -> [keyword |-> name, momentum |-> 5]
    [] op = "add_aliexpress_data" -> [name |-> name, orders |-> 100]
    [] op = "add_amazon_data" -> [name |-> name, reviews |-> 50]

\* the handler op called with the list of records
Handle(op, st, records) ==
  CASE op = "add_trend_data" -> add_trend_data(st, records)
    [] op = "add_aliexpress_data" -> add_aliexpress_data(st, records)
    [] op = "add_amazon_data" -> add_amazon_data(st, records)

IngestNamed(op, name) ==
  LET records == <<NamedRecord(op, name)>>
      st == Handle(op, Start, records)
  IN  /\ products_data' = st.products
      /\ clock' = st.clock
      /\ calls' = calls + 1
      /\ last' = [ op |-> op, args |-> records, resolved |-> st.resolved,
                   first |-> last ]
      /\ UNCHANGED pipeline

PairFirst ==
  /\ calls = 0
  /\ \E op \in NamedSources, a \in PairNames : IngestNamed(op, a)

PairSecond ==
  /\ calls = 1
  /\ \E op \in NamedSources \ {last.op}, b \in PairNames : IngestNamed(op, b)

NextPair == PairFirst \/ PairSecond

SpecPair == Init /\ [][NextPair]_vars

(***************************************************************************)
(* The whole pipeline: ingestion calls of one record each, interleaved     *)
(* with normalization, scoring, ranking, export and summary calls.         *)
(***************************************************************************)
MaxOps == 2

\* the values of n and top_n the calls are made with
TopSizes == {0, 1, 10}

\* the lists of exactly one record of the set U
Singletons(U) == { <<r>> : r \in U }

\* the effect of a call of the scoring stage
Run(op, args, out) ==
  /\ ops < MaxOps
  /\ ops' = ops + 1
  /\ normalized_df' = out.normalized_df
  /\ scored_df' = out.scored_df
  /\ csv_file' = IF "csv_file" \in DOMAIN out THEN out.csv_file ELSE csv_file
  /\ last' = [ op |-> op, args |-> args,
               result |-> IF "result" \in DOMAIN out THEN out.result
                          ELSE out.scored_df.rows,
               raised |-> out.raised ]
  /\ UNCHANGED <<products_data, clock, calls, threads>>

NormalizeScores ==
  \E out \in { [ normalized_df |->
                    normalize_scores(products_data, normalized_df),
                  scored_df |-> scored_df, result |-> << >>,
                  raised |-> "" ] } :
    Run("normalize_scores", << >>, out)

CalculateCompositeScores ==
  \E out \in calculate_composite_scores(products_data, normalized_df, scored_df) :
    Run("calculate_composite_scores", << >>, out)

GetTopProducts ==
  \E n \in TopSizes :
    \E out \in get_top_products(products_data, normalized_df, scored_df, n) :
      Run("get_top_products", <<n>>, out)

ExportToCsv ==
  \E top_n \in TopSizes :
    \E out \in export_to_csv(products_data, normalized_df, scored_df,
                             csv_file, top_n) :
      Run("export_to_csv", <<top_n>>, out)

GetSummaryStats ==
  \E out \in get_summary_stats(products_data, normalized_df, scored_df) :
    Run("get_summary_stats", << >>, out)

NextPipeline ==
  \/ AddTrendData(Singletons(TrendRecords))
  \/ AddAliexpressData(Singletons(AliRecords))
  \/ AddAmazonData(Singletons(AmazonRecords))
  \/ AddTikTokData(Singletons(TikTokVideos))
  \/ NormalizeScores
  \/ CalculateCompositeScores
  \/ GetTopProducts
  \/ ExportToCsv
  \/ GetSummaryStats

SpecPipeline == Init /\ [][NextPipeline]_vars

(***************************************************************************)
(* are_similar_products on its own: the initial state holds a pair of      *)
(* names, each with the set of lower-case tokens it was written from, and  *)
(* the one action applies the function to the pair.                        *)
(***************************************************************************)
MaxTokens == 5

RECURSIVE Ascending(_, _)
\* the members of the set S of numbers that are at least i, in rising order
Ascending(S, i) ==
  IF \A x \in S : x < i THEN << >>
  ELSE IF i \in S THEN <<i>> \o Ascending(S, i + 1)
  ELSE Ascending(S, i + 1)

\* a name written from the tokens numbered in S: in lower case and single
\* spaces, or in upper case with the first token repeated, runs of mixed
\* whitespace and whitespace at both ends
Written(S, style) ==
  LET order == Ascending(S, 1)
  IN  IF style = "plain"
      THEN join([i \in 1..Len(order) |-> <<LowerLetters[order[i]]>>])
      ELSE <<" ">> \o
           JoinFrom([i \in 1..Len(order) |->
                       <<UpperLetters[order[Len(order) + 1 - i]], "\t">>], 1)
           \o (IF Len(order) = 0 THEN << >>
               ELSE <<" ", LowerLetters[order[1]]>>)
           \o <<" ">>

SimilarInputs ==
  { [ name   |-> Written(S, style),
      tokens |-> { <<LowerLetters[i]>> : i \in S } ] :
      S \in SUBSET (1..MaxTokens), style \in {"plain", "messy"} }
  \cup
  { [ name |-> nCarPhoneHolderMount,
      tokens |-> { lower(wCar), lower(wPhone), lower(wHolder), lower(wMount) } ],
    [ name |-> nCarPhoneHolderStand,
      tokens |-> { lower(wCar), lower(wPhone), lower(wHolder), lower(wStand) } ],
    [ name |-> nPhoneHolderCarMount,
      tokens |-> { lower(wCar), lower(wPhone), lower(wHolder), lower(wMount) } ] }

InitSimilar ==
  /\ Constructed
  /\ \E a \in SimilarInputs, b \in SimilarInputs :
       last = [ op |-> "input", args |-> <<a.name, b.name>>,
                given |-> <<a.tokens, b.tokens>> ]

ApplySimilar ==
  /\ last.op = "input"
  /\ last' = [ op |-> "are_similar_products", args |-> last.args,
               given |-> last.given,
               result |-> are_similar_products(last.args[1], last.args[2]) ]
  /\ UNCHANGED <<products_data, clock, calls, pipeline>>

SpecSimilar == InitSimilar /\ [][ApplySimilar]_vars

(***************************************************************************)
(* clean_product_name on its own: the initial state holds a raw name, put  *)
(* together from a few pieces, and the one action cleans it once and then  *)
(* cleans the result again.                                                *)
(***************************************************************************)
MaxPieces == 3

CleanPieces ==
  { wNew, wHot \o <<" ">>, wCar, <<" ">> \o wKit, <<" ">> \o <<"S","e","t">>,
    <<"!">>, <<" ">>, w12, wPcs }

RECURSIVE Concat(_, _)
\* the pieces of the list from the i-th on, written one after the other
Concat(pieces, i) ==
  IF i > Len(pieces) THEN << >> ELSE pieces[i] \o Concat(pieces, i + 1)

\* a name of n characters "a"
Padding(n) == [i \in 1..n |-> "a"]

\* names whose cleaned form reaches the length limit
LongNames ==
  { Padding(MaxNameLen - 1) \o <<" ">> \o wCar,
    Padding(MaxNameLen - 4) \o <<" ">> \o wKit \o <<" ">> \o wCar,
    Padding(MaxNameLen + 1),
    wCar \o <<" ">> \o Padding(MaxNameLen) }

CleanInputs ==
  { Concat(pieces, 1) :
      pieces \in UNION { [1..n -> CleanPieces] : n \in 0..MaxPieces } }
  \cup LongNames

InitClean ==
  /\ Constructed
  /\ \E x \in CleanInputs : last = [op |-> "input", args |-> <<x>>]

ApplyClean ==
  /\ last.op = "input"
  /\ last' = Let(clean_product_name(last.args[1]), LAMBDA once :
               [ op |-> "clean_product_name", args |-> last.args,
                 once |-> once, twice |-> clean_product_name(once) ])
  /\ UNCHANGED <<products_data, clock, calls, pipeline>>

SpecClean == InitClean /\ [][ApplyClean]_vars

(***************************************************************************)
(* normalize_scores on its own: the initial state holds either a raw value *)
(* with the configuration of a metric, to which the normalization of one   *)
(* metric is applied, or a Product list as two ingestion calls leave it,   *)
(* on which normalize_scores is called.                                    *)
(***************************************************************************)
MaxBound == 3

\* configurations with min_val <= max_val, and the configured ones
NormalizeConfigs ==
  { c \in [ min_val : (-1)..MaxBound, max_val : (-1)..MaxBound,
            reverse : BOOLEAN ] : c.min_val <= c.max_val }
  \cup Range(metrics_config)

\* raw values below, between and above the bounds
NormalizeValues ==
  ((-3)..(MaxBound + 2)) \cup {-25, 12, 45, 999, 1000, 1001, 12500, 60000}

Empty == [products |-> << >>, clock |-> 0, resolved |-> << >>]

\* an Amazon record whose rank and review count are beyond the configured
\* ranges
OutOfRangeRecord == [name |-> nLedStripLights, reviews |-> 60000, bsr |-> 2000]

\* the ingestion states after a trend call and an Amazon call
IngestedStates ==
  { add_amazon_data(add_trend_data(Empty, trend_results), amazon_products) :
      trend_results \in TrendLists,
      amazon_products \in Lists(AmazonRecords \cup {OutOfRangeRecord}) }

InitNormalize ==
  \/ /\ Constructed
     /\ \E v \in NormalizeValues, config \in NormalizeConfigs :
          last = [op |-> "input", args |-> <<v, config>>]
  \/ /\ \E st \in IngestedStates :
          /\ products_data = st.products
          /\ clock = st.clock
     /\ calls = 2
     /\ normalized_df = Unset
     /\ scored_df = Unset
     /\ csv_file = NoFile
     /\ ops = 0
     /\ threads = << >>
     /\ last = [op |-> "__init__", args |-> << >>, resolved |-> << >>]

ApplyNormalize ==
  /\ last.op = "input"
  /\ last' = [ op |-> "normalize", args |-> last.args,
               result |-> normalize(last.args[1], last.args[2]) ]
  /\ UNCHANGED <<products_data, clock, calls, pipeline>>

NextNormalize ==
  \/ ApplyNormalize
  \/ NormalizeScores

SpecNormalize == InitNormalize /\ [][NextNormalize]_vars

(***************************************************************************)
(* calculate_composite_scores on its own: the initial state holds either   *)
(* the normalized cells of one row, drawn from a grid over [0,1], to which *)
(* the scoring of a row is applied, or a Product list as two ingestion     *)
(* calls leave it, on which calculate_composite_scores is called.          *)
(***************************************************************************)
MaxGrid == 2

\* the values k / MaxGrid of [0,1]
Grid == { Fraction(k, MaxGrid) : k \in 0..MaxGrid }

Extremes == { Fraction(0, 1), Fraction(1, 1) }

\* rows of normalized cells
ScoreInputs ==
  [ trend_momentum_normalized     : Grid,
    trend_avg_interest_normalized : Extremes,
    ali_orders_normalized         : Extremes,
    ali_reviews_normalized        : Grid,
    amz_reviews_normalized        : Grid,
    amz_bsr_normalized            : Extremes,
    tiktok_total_views_normalized : Grid,
    tiktok_video_count_normalized : Extremes ]

InitScore ==
  \/ /\ Constructed
     /\ \E cells \in ScoreInputs : last = [op |-> "input", args |-> <<cells>>]
  \/ /\ \E st \in IngestedStates :
          /\ products_data = st.products
          /\ clock = st.clock
     /\ calls = 2
     /\ normalized_df = Unset
     /\ scored_df = Unset
     /\ csv_file = NoFile
     /\ ops = 0
     /\ threads = << >>
     /\ last = [op |-> "__init__", args |-> << >>, resolved |-> << >>]

ApplyScore ==
  /\ last.op = "input"
  /\ last' = [ op |-> "score", args |-> last.args,
               result |-> ScoredCells(last.args[1]) ]
  /\ UNCHANGED <<products_data, clock, calls, pipeline>>

NextScore ==
  \/ ApplyScore
  \/ CalculateCompositeScores

SpecScore == InitScore /\ [][NextScore]_vars

(***************************************************************************)
(* Ranking on its own: the initial state holds a Product list as one trend *)
(* call leaves it, with records whose momentum is one of two values so     *)
(* that Products of equal score occur; the actions score the Products and  *)
(* read the top of the scored table.                                       *)
(***************************************************************************)
RankRecords ==
  { [keyword |-> name, momentum |-> momentum] :
      name \in {nWirelessEarbuds, nLedStripLights, nCarPhoneHolderMount},
      momentum \in {5, 12} }

RankedStates ==
  { add_trend_data(Empty, trend_results) : trend_results \in Lists(RankRecords) }

InitRank ==
  /\ \E st \in RankedStates :
       /\ products_data = st.products
       /\ clock = st.clock
  /\ calls = 1
  /\ normalized_df = Unset
  /\ scored_df = Unset
  /\ csv_file = NoFile
  /\ ops = 0
  /\ threads = << >>
  /\ last = [op |-> "__init__", args |-> << >>, resolved |-> << >>]

NextRank ==
  \/ CalculateCompositeScores
  \/ GetTopProducts

SpecRank == InitRank /\ [][NextRank]_vars

(***************************************************************************)
(* extract_products_from_video on its own: the initial state holds a title *)
(* and a list of hashtags, and the one action extracts the keywords, the   *)
(* set of candidates being iterated in any order.                          *)
(***************************************************************************)
MaxTags == 2

\* "hello world": a title none of the patterns matches
tHelloWorld ==
  join(<<<<"h","e","l","l","o">>, <<"w","o","r","l","d">>>>)

ExtractTitles == { << >>, wX, tHelloWorld, tTestingEarbuds, tViralLedLights }

ExtractHashtags ==
  { hEarbuds, hLedLights, hHotHotAb, nLedStripLights,
    <<"V","i","r","a","l">>, <<"f","y","p">> }

InitExtract ==
  /\ Constructed
  /\ \E title \in ExtractTitles :
       \E hashtags \in UNION { [1..n -> ExtractHashtags] : n \in 0..MaxTags } :
         last = [op |-> "input", args |-> <<title, hashtags>>]

ApplyExtract ==
  /\ last.op = "input"
  /\ \E order \in IterationOrders(CandidateSet(last.args[1], last.args[2])) :
       last' = [ op |-> "extract_products_from_video", args |-> last.args,
                 result |-> extract_products_from_video(order) ]
  /\ UNCHANGED <<products_data, clock, calls, pipeline>>

SpecExtract == InitExtract /\ [][ApplyExtract]_vars

(***************************************************************************)
(* add_tiktok_data on its own: one call on the empty Product set with a    *)
(* list of videos; last keeps the iteration orders met, the keywords       *)
(* extracted from each video and the keywords in the order in which they   *)
(* were resolved.                                                          *)
(***************************************************************************)
MaxVideos == 3

\* the hashtag "LED Lights"
hLedSpaceLights == join(<<wLED, wLights>>)

\* a video whose two hashtags have the same canonical form
TwoTagsVideo ==
  [ title |-> wX, hashtags |-> <<hLedLights, hLedSpaceLights>>, views |-> 100,
    likes |-> 7, url |-> "https://tiktok.com/video5" ]

SocialVideos == TikTokVideos \cup {TwoTagsVideo}

SocialLists ==
  { l \in UNION { [1..n -> SocialVideos] : n \in 0..MaxVideos } :
      \A i, j \in DOMAIN l : i # j => l[i] # l[j] }

\* the keywords extracted from each video of the call
Extracted(tiktok_videos, orders) ==
  [i \in 1..Len(tiktok_videos) |->
     IF DOMAIN tiktok_videos[i] = {} THEN << >>
     ELSE extract_products_from_video(orders[i])]

AddSocial ==
  /\ calls = 0
  /\ \E tiktok_videos \in SocialLists :
       \E orders \in VideoOrders(tiktok_videos) :
         LET st == add_tiktok_data(Start, tiktok_videos, orders)
             product_mentions == GroupVideos(<< >>, tiktok_videos, orders, 1)
         IN  /\ products_data' = st.products
             /\ clock' = st.clock
             /\ calls' = calls + 1
             /\ last' = [ op |-> "add_tiktok_data", args |-> tiktok_videos,
                          resolved |-> st.resolved, orders |-> orders,
                          extracted |-> Extracted(tiktok_videos, orders),
                          keywords |-> [m \in 1..Len(product_mentions) |->
                                          product_mentions[m].keyword] ]
             /\ UNCHANGED pipeline

SpecSocial == Init /\ [][AddSocial]_vars

(***************************************************************************)
(* Two callers inside the ingestion handlers at the same time.  The class  *)
(* holds no lock: between the scan of find_or_create_product, its append   *)
(* and the update of the handler another caller can run.  With serialized  *)
(* the callers hold a lock around the three steps.                         *)
(***************************************************************************)
\* the name the handler op passes to find_or_create_product
ProductName(op, record) ==
  CASE op = "add_trend_data" -> get(record, "keyword", << >>)
    [] op = "add_aliexpress_data" ->
         clean_product_name(get(record, "name", << >>))
    [] op = "add_amazon_data" -> clean_product_name(get(record, "name", << >>))

\* the fields the handler op merges into the Product
MergedFields(op, record) ==
  CASE op = "add_trend_data" -> trend_fields(record)
    [] op = "add_aliexpress_data" -> ali_fields(record)
    [] op = "add_amazon_data" -> amz_fields(record)

\* a caller that entered the loop body of the handler op with one record
Thread(op, name) ==
  [ op         |-> op,
    record     |-> NamedRecord(op, name),
    clean_name |-> clean_product_name(ProductName(op, NamedRecord(op, name))),
    found      |-> 0,
    appended   |-> FALSE,
    pc         |-> "scan" ]

Threads == 1..2

InitThreads ==
  /\ products_data = << >>
  /\ clock = 0
  /\ calls = 0
  /\ normalized_df = Unset
  /\ scored_df = Unset
  /\ csv_file = NoFile
  /\ ops = 0
  /\ last = [op |-> "__init__", args |-> << >>, resolved |-> << >>]
  /\ \E serialized \in BOOLEAN, op1 \in NamedSources, a, b \in PairNames :
       \E op2 \in NamedSources \ {op1} :
         threads = [ serialized |-> serialized,
                     running    |-> <<Thread(op1, a), Thread(op2, b)>> ]

\* the end of find_or_create_product after a scan that accepted no Product,
\* with a second scan just before the append
AppendProduct_rescanning(products, clean_name, now) ==
  IF SimilarTo(products, clean_name) # {} THEN products
  ELSE Append(products, new_product(clean_name, now))

\* the end of find_or_create_product after a scan that accepted no Product
AppendProduct(products, clean_name, now) ==
  Append(products, new_product(clean_name, now))

\* the thread t reads the Product list: the guard and the scan
ThreadScan(t) ==
  LET self == threads.running[t]
      hits == SimilarTo(products_data, self.clean_name)
  IN  /\ ~threads.serialized
      /\ self.pc = "scan"
      /\ threads' = [threads EXCEPT !.running[t] =
           IF Len(self.clean_name) = 0 \/ Len(self.clean_name) < MinNameLen
           THEN [self EXCEPT !.pc = "merge"]
           ELSE IF hits # {}
           THEN [self EXCEPT !.pc = "merge",
                             !.found = CHOOSE i \in hits : \A j \in hits : i <= j]
           ELSE [self EXCEPT !.pc = "append"]]
      /\ UNCHANGED <<products_data, clock, calls, last, normalized_df,
                     scored_df, csv_file, ops>>

\* the thread t, whose scan accepted no Product, appends a new one
ThreadAppend(t) ==
  LET self == threads.running[t]
  IN  /\ self.pc = "append"
      /\ products_data' = AppendProduct(products_data, self.clean_name, clock)
      /\ clock' = clock + 1
      /\ threads' = [threads EXCEPT !.running[t] =
           [self EXCEPT !.pc = "merge", !.appended = TRUE,
                        !.found = Len(products_data')]]
      /\ UNCHANGED <<calls, last, normalized_df, scored_df, csv_file, ops>>

\* the thread t updates the Product its find_or_create_product returned
ThreadMerge(t) ==
  LET self == threads.running[t]
  IN  /\ self.pc = "merge"
      /\ products_data' = update(products_data, self.found,
                                 MergedFields(self.op, self.record))
      /\ threads' = [threads EXCEPT !.running[t] = [self EXCEPT !.pc = "done"]]
      /\ UNCHANGED <<clock, calls, last, normalized_df, scored_df, csv_file,
                     ops>>

\* the thread t runs scan, append and update under the lock
ThreadResolve(t) ==
  LET self == threads.running[t]
      st == FindAndUpdate(Start, ProductName(self.op, self.record),
                          MergedFields(self.op, self.record))
  IN  /\ threads.serialized
      /\ self.pc = "scan"
      /\ products_data' = st.products
      /\ clock' = st.clock
      /\ threads' = [threads EXCEPT !.running[t] =
           [self EXCEPT !.pc = "done", !.found = Returned(st),
                        !.appended = Len(st.products) > Len(products_data)]]
      /\ UNCHANGED <<calls, last, normalized_df, scored_df, csv_file, ops>>

NextThreads ==
  \E t \in Threads :
    ThreadScan(t) \/ ThreadAppend(t) \/ ThreadMerge(t) \/ ThreadResolve(t)

SpecThreads == InitThreads /\ [][NextThreads]_vars

(***************************************************************************)
(* One ingestion call made twice in a row with the same list.  The second  *)
(* call of add_tiktok_data iterates its candidate sets in the order of the *)
(* first: within one process the order of a set built from the same        *)
(* strings in the same way does not change.                                *)
(***************************************************************************)
\* the record lists of the handler op
RecordLists(op) ==
  CASE op = "add_trend_data" -> TrendLists
    [] op = "add_aliexpress_data" -> AliLists
    [] op = "add_amazon_data" -> AmazonLists
    [] op = "add_tiktok_data" -> Lists(SocialVideos)

\* the iteration orders the call of op with the list can meet
CallOrders(op, records) ==
  IF op = "add_tiktok_data" THEN VideoOrders(records) ELSE {<< >>}

\* the handler op called with the list
Call(op, st, records, orders) ==
  IF op = "add_tiktok_data" THEN add_tiktok_data(st, records, orders)
  ELSE Handle(op, st, records)

\* the Product sets the repeated call starts from
TwiceStates == {Empty} \cup { add_trend_data(Empty, l) : l \in TrendLists }

InitTwice ==
  /\ \E st \in TwiceStates :
       /\ products_data = st.products
       /\ clock = st.clock
  /\ calls = 0
  /\ normalized_df = Unset
  /\ scored_df = Unset
  /\ csv_file = NoFile
  /\ ops = 0
  /\ threads = << >>
  /\ last = [op |-> "__init__", args |-> << >>, resolved |-> << >>]

IngestOnce ==
  /\ calls = 0
  /\ \E op \in {"add_trend_data", "add_aliexpress_data", "add_amazon_data",
                "add_tiktok_data"} :
       \E records \in RecordLists(op) :
         \E orders \in CallOrders(op, records) :
           LET st == Call(op, Start, records, orders)
           IN  /\ products_data' = st.products
               /\ clock' = st.clock
               /\ calls' = calls + 1
               /\ last' = [ op |-> op, args |-> records, orders |-> orders,
                            resolved |-> st.resolved, before |-> Len(products_data) ]
               /\ UNCHANGED pipeline

IngestAgain ==
  /\ calls = 1
  /\ LET st == Call(last.op, Start, last.args, last.orders)
     IN  /\ products_data' = st.products
         /\ clock' = st.clock
         /\ calls' = calls + 1
         /\ last' = [last EXCEPT !.resolved = st.resolved]
         /\ UNCHANGED pipeline

NextTwice == IngestOnce \/ IngestAgain

SpecTwice == InitTwice /\ [][NextTwice]_vars

(***************************************************************************)
(* Claims                                                                  *)
(***************************************************************************)

\* C8: are_similar_products(a, b) is true exactly when both names have at
\* least one token and |A \cap B| / |A \cup B| > 0.6 strictly, A and B being
\* the sets of lower-case tokens the names were written from; a name with no
\* token is similar to nothing.
C8_SimilarIffJaccardAboveThreshold ==
  last.op = "are_similar_products" =>
    LET A == last.given[1]
        B == last.given[2]
    IN  last.result =
          ( /\ A # {}
            /\ B # {}
            /\ 5 * Cardinality(A \cap B) > 3 * Cardinality(A \cup B) )

\* a pair that shares 3 tokens out of 5 (similarity exactly 0.6) was compared
\* and found not similar
C8_Witness ==
  /\ last.op = "are_similar_products"
  /\ Cardinality(last.given[1] \cap last.given[2]) = 3
  /\ Cardinality(last.given[1] \cup last.given[2]) = 5
  /\ last.result = FALSE

\* C9: similarity is symmetric for all pairs of names, and every name with
\* at least one token is similar to itself.
C9_SymmetricAndReflexive ==
  last.op = "are_similar_products" =>
    /\ last.result = are_similar_products(last.args[2], last.args[1])
    /\ (last.args[1] = last.args[2] /\ last.given[1] # {}) => last.result

\* a pair of different names was found similar, and so was the swapped pair
C9_Witness ==
  /\ last.op = "are_similar_products"
  /\ last.args[1] # last.args[2]
  /\ last.given[1] # last.given[2]
  /\ last.result = TRUE

\* C10: clean_product_name is idempotent: cleaning a cleaned name changes
\* nothing.
C10_CleanIdempotent ==
  last.op = "clean_product_name" => last.twice = last.once

\* the names the resolver is asked about
ProbeNames ==
  { nCarPhoneHolderMount, nPhoneHolderCarMount, nCarPhoneHolderStand,
    nCarPhoneHolderMountStand, nWirelessEarbuds, nLedStripLights,
    nBestWirelessEarbudsKit, nNewHotCarMount, nHotAb, n12Pcs }

\* C1: for a name whose canonical form has 3 characters or more,
\* find_or_create_product returns the first Product, in insertion order,
\* that are_similar_products accepts against the canonical form, leaving the
\* Product set as it is; when no Product is similar it appends exactly one
\* Product at the end, named with the canonical form, and returns it.
C1_FirstSimilarElseAppend ==
  \A n \in ProbeNames :
    LET c == clean_product_name(n)
        st == find_or_create_product(Start, n)
        similar == { i \in 1..Len(products_data) :
                       are_similar_products(products_data[i].name, c) }
    IN  Len(c) >= 3 =>
          IF similar # {}
          THEN /\ st.products = products_data
               /\ Returned(st) \in similar
               /\ \A j \in similar : Returned(st) <= j
          ELSE /\ Len(st.products) = Len(products_data) + 1
               /\ SubSeq(st.products, 1, Len(products_data)) = products_data
               /\ Returned(st) = Len(st.products)
               /\ st.products[Returned(st)].name = c

\* an Amazon record was resolved to the first Product while the second
\* Product is similar to its name too
C1_Witness ==
  /\ last.op = "add_amazon_data"
  /\ Len(products_data) >= 2
  /\ \E k \in 1..Len(last.args) :
       /\ last.resolved[k] = 1
       /\ "name" \in DOMAIN last.args[k]
       /\ LET c == clean_product_name(clean_product_name(last.args[k].name))
          IN  /\ are_similar_products(products_data[1].name, c)
              /\ are_similar_products(products_data[2].name, c)
              /\ products_data[1].name # c

\* C3: a record whose canonical name is empty or shorter than 3 characters
\* changes nothing in the Product set, whichever of the four sources brings
\* it (for the video source the record is a keyword found in the video).
C3_DegenerateRecordIgnored ==
  /\ \A r \in TrendRecords :
       Len(clean_product_name(get(r, "keyword", << >>))) < 3
         => add_trend_data(Start, <<r>>).products = products_data
  /\ \A r \in AliRecords :
       Len(clean_product_name(get(r, "name", << >>))) < 3
         => add_aliexpress_data(Start, <<r>>).products = products_data
  /\ \A r \in AmazonRecords :
       Len(clean_product_name(get(r, "name", << >>))) < 3
         => add_amazon_data(Start, <<r>>).products = products_data
  /\ \A v \in TikTokVideos : \A orders \in VideoOrders(<<v>>) :
       LET keywords == IF DOMAIN v = {} THEN << >>
                       ELSE extract_products_from_video(orders[1])
       IN  (\A k \in 1..Len(keywords) :
              Len(clean_product_name(keywords[k])) < 3)
             => add_tiktok_data(Start, <<v>>, orders).products = products_data

\* a call brought a record with a degenerate name to a Product set that is
\* not empty, and the record was resolved to no Product
C3_Witness ==
  /\ last.op \in {"add_trend_data", "add_amazon_data", "add_tiktok_data"}
  /\ Len(products_data) > 0
  /\ \E k \in 1..Len(last.resolved) : last.resolved[k] = 0

\* the fields each source owns
OwnedFields(op) ==
  CASE op = "add_trend_data" -> DOMAIN trend_fields(<< >>)
    [] op = "add_aliexpress_data" -> DOMAIN ali_fields(<< >>)
    [] op = "add_amazon_data" -> DOMAIN amz_fields(<< >>)
    [] op = "add_tiktok_data" -> DOMAIN tiktok_fields(NewMention(<< >>))
    [] OTHER -> {}

\* C4: merging a record of one source into a Product overwrites only that
\* source's own fields: every field of every Product that the source does
\* not own is there after the call with the value it had before.
C4_OtherSourcesFieldsKept ==
  [][ /\ Len(products_data') >= Len(products_data)
      /\ \A i \in 1..Len(products_data) :
           \A f \in DOMAIN products_data[i] \ OwnedFields(last'.op) :
             /\ f \in DOMAIN products_data'[i]
             /\ products_data'[i][f] = products_data[i][f] ]_vars

\* an AliExpress record was merged into a Product that the trend source had
\* filled, and the trend fields are still there
C4_Witness ==
  /\ last.op = "add_aliexpress_data"
  /\ \E k \in 1..Len(last.resolved) :
       /\ last.resolved[k] # 0
       /\ LET p == products_data[last.resolved[k]]
          IN  /\ p.has_trend_data /\ p.has_ali_data
              /\ p.trend_momentum = 12
              /\ p.ali_orders = 12500

\* the fields a handler writes for a record
FieldsOf(op, record) ==
  CASE op = "add_trend_data" -> trend_fields(record)
    [] op = "add_aliexpress_data" -> ali_fields(record)
    [] op = "add_amazon_data" -> amz_fields(record)

\* C5: when records of one source resolve to the same Product, the record
\* processed last determines all of that source's fields on the Product:
\* each has that record's value, or the field's default when the record
\* lacks it.
C5_LastRecordWins ==
  last.op \in {"add_trend_data", "add_aliexpress_data", "add_amazon_data"} =>
    \A i \in 1..Len(products_data) :
      LET from == { k \in 1..Len(last.args) : last.resolved[k] = i }
      IN  from # {} =>
            LET latest == CHOOSE k \in from : \A j \in from : j <= k
                fields == FieldsOf(last.op, last.args[latest])
            IN  \A f \in DOMAIN fields : products_data[i][f] = fields[f]

\* two AliExpress records of one call were resolved to the same Product; the
\* first carried reviews and the second did not, and the Product shows the
\* second record's orders and the default for its reviews
C5_Witness ==
  /\ last.op = "add_aliexpress_data"
  /\ Len(last.args) = 2
  /\ last.resolved[1] = last.resolved[2]
  /\ last.resolved[1] # 0
  /\ "reviews" \in DOMAIN last.args[1]
  /\ "reviews" \notin DOMAIN last.args[2]
  /\ products_data[last.resolved[1]].ali_orders = last.args[2].orders
  /\ products_data[last.resolved[1]].ali_reviews = 0

\* the flag each source sets
FlagOf(op) ==
  CASE op = "add_trend_data" -> "has_trend_data"
    [] op = "add_aliexpress_data" -> "has_ali_data"
    [] op = "add_amazon_data" -> "has_amz_data"
    [] op = "add_tiktok_data" -> "has_tiktok_data"

IngestionOps ==
  {"add_trend_data", "add_aliexpress_data", "add_amazon_data",
   "add_tiktok_data"}

\* C6: a Product's flag of a source is true exactly when that source has
\* brought a record that was resolved to the Product: after every call a
\* flag is true iff it was true before or the call is of the flag's source
\* and resolved a record to the Product; a new Product starts with all flags
\* false, and a flag that is true stays true.
C6_FlagsExactAndMonotone ==
  [][ \A i \in 1..Len(products_data') : \A op \in IngestionOps :
        products_data'[i][FlagOf(op)] =
          ( \/ /\ i <= Len(products_data)
               /\ products_data[i][FlagOf(op)]
            \/ /\ last'.op = op
               /\ \E k \in 1..Len(last'.resolved) : last'.resolved[k] = i ) ]_vars

\* a Product was created by the video source and then met by the Amazon
\* source: two of its flags are true and the other two false
C6_Witness ==
  /\ last.op = "add_amazon_data"
  /\ \E i \in 1..Len(products_data) :
       /\ products_data[i].has_tiktok_data
       /\ products_data[i].has_amz_data
       /\ ~products_data[i].has_trend_data
       /\ ~products_data[i].has_ali_data

\* the name a record carries
NameOf(record) ==
  IF "keyword" \in DOMAIN record THEN record.keyword ELSE record.name

\* the canonical name under which the handler op resolves a record named n:
\* the trend handler cleans it once, the other two clean it twice
ResolvedName(op, n) ==
  IF op = "add_trend_data" THEN clean_product_name(n)
  ELSE clean_product_name(clean_product_name(n))

\* similarity above 0.6 of the token sets of two names
AboveThreshold(a, b) ==
  LET A == TokenSet(a)
      B == TokenSet(b)
  IN  5 * Cardinality(A \cap B) > 3 * Cardinality(A \cup B)

\* exactly one Product, with the flags of both sources true
OneMergedProduct(op1, op2) ==
  /\ Len(products_data) = 1
  /\ products_data[1][FlagOf(op1)]
  /\ products_data[1][FlagOf(op2)]

\* exactly two Products, the first from the first record and the second
\* from the second
TwoProductsInOrder(op1, op2) ==
  /\ Len(products_data) = 2
  /\ products_data[1][FlagOf(op1)] /\ ~products_data[1][FlagOf(op2)]
  /\ products_data[2][FlagOf(op2)] /\ ~products_data[2][FlagOf(op1)]
  /\ products_data[1].name # products_data[2].name

\* C2 as stated: from the empty Product set, a record named a from one
\* source and then a record named b from another source, both names with a
\* canonical form of 3 characters or more, give exactly one Product with
\* both flags true when the token-set similarity of a and b exceeds 0.6, and
\* exactly two Products in that order otherwise.
C2_SimilarityOfGivenNames ==
  calls = 2 =>
    LET a == NameOf(last.first.args[1])
        b == NameOf(last.args[1])
    IN  ( /\ Len(clean_product_name(a)) >= 3
          /\ Len(clean_product_name(b)) >= 3 ) =>
          IF AboveThreshold(a, b)
          THEN OneMergedProduct(last.first.op, last.op)
          ELSE TwoProductsInOrder(last.first.op, last.op)

\* C2 amended: the same, with validity and similarity taken of the
\* canonical names under which the two records are resolved (the name
\* stored for the first record and the name the resolver computes for the
\* second) instead of the names a and b as given; the two Products then
\* carry these names.
C2_SimilarityOfResolvedNames ==
  calls = 2 =>
    LET a == ResolvedName(last.first.op, NameOf(last.first.args[1]))
        b == ResolvedName(last.op, NameOf(last.args[1]))
    IN  (Len(a) >= 3 /\ Len(b) >= 3) =>
          IF AboveThreshold(a, b)
          THEN /\ OneMergedProduct(last.first.op, last.op)
               /\ products_data[1].name = a
          ELSE /\ TwoProductsInOrder(last.first.op, last.op)
               /\ products_data[1].name = a
               /\ products_data[2].name = b

\* "Best Wireless Earbuds Kit" from Amazon and then "Wireless Earbuds" from
\* the trend source, of similarity 2/4 as given, were merged into one
\* Product
C2_Witness ==
  /\ calls = 2
  /\ last.first.op = "add_amazon_data"
  /\ last.op = "add_trend_data"
  /\ NameOf(last.first.args[1]) = nBestWirelessEarbudsKit
  /\ NameOf(last.args[1]) = nWirelessEarbuds
  /\ ~AboveThreshold(nBestWirelessEarbudsKit, nWirelessEarbuds)
  /\ OneMergedProduct("add_amazon_data", "add_trend_data")

\* C7: the Product list is append-only under every ingestion,
\* normalization, scoring and export call: after each call every Product
\* that was in the list is at the same position with the same name and the
\* same created_at, and the list is no shorter.
C7_ProductListAppendOnly ==
  [][ /\ Len(products_data') >= Len(products_data)
      /\ \A i \in 1..Len(products_data) :
           /\ products_data'[i].name = products_data[i].name
           /\ products_data'[i].created_at = products_data[i].created_at ]_vars

\* Products were scored and exported, and afterwards an ingestion call
\* added a Product behind those that were there
C7_Witness ==
  /\ last.op \in IngestionOps
  /\ scored_df.set
  /\ csv_file.exists
  /\ Len(scored_df.rows) >= 1
  /\ Len(products_data) > Len(scored_df.rows)
  /\ \A i \in 1..Len(scored_df.rows) :
       \E j \in 1..Len(scored_df.rows) :
         /\ scored_df.rows[j].index = i
         /\ scored_df.rows[j].cells.name = products_data[i].name

\* C11 as stated: every path resolves a record under the raw name cleaned
\* once.  After a single-record call whose raw name has a canonical form of
\* 3 characters or more, a Product created by the call is stored under
\* clean_product_name(raw name), and when the call before brought the same
\* raw name by another path both records are in one and the same Product.
C11_ResolvedUnderNameCleanedOnce ==
  calls >= 1 =>
    LET raw == NameOf(last.args[1])
        canonical == clean_product_name(raw)
    IN  Len(canonical) >= 3 =>
          /\ calls = 1 => /\ Len(products_data) = 1
                          /\ products_data[1].name = canonical
          /\ (calls = 2 /\ NameOf(last.first.args[1]) = raw) =>
               /\ last.resolved = last.first.resolved
               /\ Len(products_data) = 1

\* x is the normalized value of the raw value v under the configuration c:
\* within [0,1]; 1/2 when the bounds are equal; otherwise the distance of v
\* from min_val (from max_val for a reverse metric) over the width of the
\* range in lowest terms, held at 0 and at 1
IsNormalized(v, c, x) ==
  /\ x.den > 0
  /\ 0 <= x.num
  /\ x.num <= x.den
  /\ IF c.max_val = c.min_val THEN 2 * x.num = x.den
     ELSE LET width == c.max_val - c.min_val
              t == IF c.reverse THEN c.max_val - v ELSE v - c.min_val
          IN  IF t <= 0 THEN x.num = 0
              ELSE IF t >= width THEN x.num = x.den
              ELSE /\ x.num = t \div Gcd(t, width)
                   /\ x.den = width \div Gcd(t, width)

\* C12: the normalization of one metric gives 0.5 when max = min and
\* otherwise clip((v - min)/(max - min), 0, 1), or clip(1 - that, 0, 1) for
\* a reverse metric, so the value lies in [0,1] for every raw value; and
\* normalize_scores gives every Product, for every configured metric, that
\* value of the Product's raw value, a missing one counting as 0.
C12_NormalizedValues ==
  /\ last.op = "normalize" =>
       IsNormalized(last.args[1], last.args[2], last.result)
  /\ (last.op = "normalize_scores" /\ normalized_df.set) =>
       /\ Len(normalized_df.rows) = Len(products_data)
       /\ \A i \in 1..Len(products_data) : \A metric \in Metrics :
            /\ normalized_df.rows[i].index = i
            /\ NormalizedName(metric) \in DOMAIN normalized_df.rows[i].cells
            /\ IsNormalized(get(products_data[i], metric, 0),
                            metrics_config[metric],
                            normalized_df.rows[i].cells[NormalizedName(metric)])

\* normalize_scores ran on a Product whose rank and review count are above
\* their ranges, normalized to 0 and to 1, beside a Product that has no
\* Amazon data, whose missing rank counts as 0 and is normalized to 1
C12_Witness ==
  /\ last.op = "normalize_scores"
  /\ normalized_df.set
  /\ \E i, j \in 1..Len(products_data) :
       /\ "amz_bsr" \notin DOMAIN products_data[i]
       /\ normalized_df.rows[i].cells["amz_bsr_normalized"] = Fraction(1, 1)
       /\ "amz_bsr" \in DOMAIN products_data[j]
       /\ products_data[j].amz_bsr > metrics_config.amz_bsr.max_val
       /\ products_data[j].amz_reviews > metrics_config.amz_reviews.max_val
       /\ normalized_df.rows[j].cells["amz_bsr_normalized"] = Fraction(0, 1)
       /\ normalized_df.rows[j].cells["amz_reviews_normalized"] = Fraction(1, 1)

\* the fraction x lies in [0,1]
InUnitRange(x) == x.den > 0 /\ 0 <= x.num /\ x.num <= x.den

\* every normalized cell of the row lies in [0,1]
NormalizedInRange(cells) ==
  \A metric \in Metrics : InUnitRange(cells[NormalizedName(metric)])

\* C13: for normalized inputs in [0,1] each of the five sub-scores and the
\* composite score of a row lies in [0,1]: for the rows drawn from the
\* grid, and for the row of every Product in the scored table.
C13_ScoresInUnitRange ==
  /\ (last.op = "score" /\ NormalizedInRange(last.args[1])) =>
       \A c \in ScoreColumns : InUnitRange(last.result[c])
  /\ scored_df.set =>
       \A i \in 1..Len(scored_df.rows) :
         NormalizedInRange(scored_df.rows[i].cells) =>
           \A c \in ScoreColumns : InUnitRange(scored_df.rows[i].cells[c])

\* a row with every normalized input at 1 was scored: the four blended
\* sub-scores and the competition score are 1 and the composite is below 1
C13_Witness ==
  /\ last.op = "score"
  /\ \A metric \in Metrics :
       last.args[1][NormalizedName(metric)] = Fraction(1, 1)
  /\ \A c \in ScoreColumns \ {"composite_score"} :
       last.result[c] = Fraction(1, 1)
  /\ last.result.composite_score = Fraction(85, 100)

\* the numerator of the grid value x over the denominator MaxGrid
Numerator(x) == x.num * (MaxGrid \div x.den)

\* the fraction x equals n / d
Equals(x, n, d) == x.num * d = n * x.den

\* the row's sub-scores and composite score are those of the formulas, in
\* whole numbers: the sub-scores over 10 * MaxGrid and the weighted sum over
\* 1000 * MaxGrid
IsScored(cells, scores) ==
  LET n(metric) == Numerator(cells[NormalizedName(metric)])
      trend == 7 * n("trend_momentum") + 3 * n("trend_avg_interest")
      velocity == 6 * n("ali_orders") + 4 * n("ali_reviews")
      popularity == 5 * n("amz_reviews") + 5 * n("amz_bsr")
      virality == 7 * n("tiktok_total_views") + 3 * n("tiktok_video_count")
      competition == 5 * (n("amz_reviews") + n("ali_reviews"))
      sum == 35 * trend + 25 * velocity + 20 * virality + 15 * popularity
               - 10 * competition
      one == 1000 * MaxGrid
  IN  /\ Equals(scores.trend_score, trend, 10 * MaxGrid)
      /\ Equals(scores.ali_velocity_score, velocity, 10 * MaxGrid)
      /\ Equals(scores.amz_popularity_score, popularity, 10 * MaxGrid)
      /\ Equals(scores.tiktok_virality_score, virality, 10 * MaxGrid)
      /\ Equals(scores.competition_score, competition, 10 * MaxGrid)
      /\ Equals(scores.composite_score,
                IF sum < 0 THEN 0 ELSE IF sum > one THEN one ELSE sum, one)

\* C14: composite_score = clip(0.35 trend + 0.25 velocity + 0.20 virality
\* + 0.15 popularity - 0.10 competition, 0, 1) with trend = 0.7 momentum +
\* 0.3 interest, velocity = 0.6 orders + 0.4 AliExpress reviews, popularity
\* = 0.5 Amazon reviews + 0.5 rank, virality = 0.7 views + 0.3 video count
\* and competition = (Amazon reviews + AliExpress reviews) / 2, all of the
\* normalized values.
C14_CompositeFormula ==
  last.op = "score" => IsScored(last.args[1], last.result)

\* a row with both review counts at 1 and every other input at 0 was
\* scored: velocity 0.4, popularity 0.5, competition 1, composite 0.075
C14_Witness ==
  /\ last.op = "score"
  /\ \A metric \in Metrics :
       last.args[1][NormalizedName(metric)] =
         IF metric \in {"ali_reviews", "amz_reviews"}
         THEN Fraction(1, 1) ELSE Fraction(0, 1)
  /\ last.result.competition_score = Fraction(1, 1)
  /\ last.result.composite_score = Fraction(75, 1000)

\* the rows are in descending order of composite score, rows of equal score
\* in the order of their Products in the list
StablyRanked(rows) ==
  \A i, j \in 1..Len(rows) :
    i < j =>
      /\ ~Less(rows[i].cells.composite_score, rows[j].cells.composite_score)
      /\ rows[i].cells.composite_score = rows[j].cells.composite_score =>
           rows[i].index < rows[j].index

\* C15 as stated: ranking is a stable descending sort: the rows of the
\* scored table are in non-increasing order of composite score with equal
\* scores in insertion order, and the list get_top_products returns is the
\* head of that table, its scores non-increasing.
C15_StableDescendingRanking ==
  /\ scored_df.set => StablyRanked(scored_df.rows)
  /\ (last.op = "get_top_products" /\ last.raised = "") =>
       /\ Len(last.result) = Min(last.args[1], Len(scored_df.rows))
       /\ \A k \in 1..Len(last.result) :
            /\ last.result[k].product_name = scored_df.rows[k].cells.name
            /\ k > 1 => last.result[k].score <= last.result[k - 1].score

\* the trend record with momentum 1.2 and average interest 45
ScenarioTrend ==
  CHOOSE r \in TrendRecords :
    get(r, "momentum", 0) = 12 /\ get(r, "avg_interest", 0) = 45

\* the AliExpress record with 12500 orders and 856 reviews, whose name has
\* the tokens of the trend record's keyword
ScenarioAli ==
  CHOOSE r \in AliRecords :
    get(r, "orders", 0) = 12500 /\ get(r, "reviews", 0) = 856

\* C16: from the empty set, the trend record (momentum 1.2, average
\* interest 45) and then the AliExpress record (12500 orders, 856 reviews)
\* of a matching name leave exactly one Product, with has_trend_data and
\* has_ali_data true and has_amz_data false; and the trend_score of a
\* Product with that momentum and interest, rounded to 3 decimals, is 0.695.
C16_EndToEnd ==
  /\ [][ ( /\ calls = 1
           /\ last.op = "add_trend_data"
           /\ last.args = <<ScenarioTrend>>
           /\ last'.op = "add_aliexpress_data"
           /\ last'.args = <<ScenarioAli>> ) =>
         ( /\ Len(products_data) = 1
           /\ Len(products_data') = 1
           /\ products_data'[1].has_trend_data
           /\ products_data'[1].has_ali_data
           /\ ~products_data'[1].has_amz_data ) ]_vars
  /\ [](scored_df.set =>
          \A i \in 1..Len(scored_df.rows) :
            ( /\ scored_df.rows[i].cells.trend_momentum = 12
              /\ scored_df.rows[i].cells.trend_avg_interest = 45 ) =>
              round3(scored_df.rows[i].cells.trend_score) = 695)

\* the two records were ingested in that order and the Products scored
\* right after: one Product under the trend record's name with both
\* sources' fields, trend_score 0.695
C16_Witness ==
  /\ calls = 2
  /\ last.op = "calculate_composite_scores"
  /\ Len(products_data) = 1
  /\ products_data[1].name = clean_product_name(ScenarioTrend.keyword)
  /\ products_data[1].has_trend_data
  /\ products_data[1].has_ali_data
  /\ ~products_data[1].has_amz_data
  /\ products_data[1].trend_momentum = 12
  /\ products_data[1].ali_orders = 12500
  /\ products_data[1].ali_reviews = 856
  /\ Len(scored_df.rows) = 1
  /\ scored_df.rows[1].cells.trend_score = Fraction(139, 200)
  /\ round3(scored_df.rows[1].cells.trend_score) = 695

ScoringOps ==
  {"normalize_scores", "calculate_composite_scores", "get_top_products",
   "export_to_csv", "get_summary_stats"}

\* C17 as stated: with zero Products no scoring or export call raises:
\* normalize_scores and calculate_composite_scores leave an empty
\* normalized and scored table, get_top_products returns the empty list,
\* and export_to_csv returns False and creates no file.
C17_EmptySetRaisesNothing ==
  (Len(products_data) = 0 /\ last.op \in ScoringOps) =>
    /\ last.raised = ""
    /\ last.op = "normalize_scores" =>
         normalized_df.set /\ normalized_df.rows = << >>
    /\ last.op = "calculate_composite_scores" =>
         scored_df.set /\ scored_df.rows = << >>
    /\ last.op = "get_top_products" => last.result = << >>
    /\ last.op = "export_to_csv" => last.result = FALSE /\ ~csv_file.exists

\* the fields a handler expects in a record: the key in the record, the
\* field of the Product it is stored in, and the zero or empty value of its
\* type
ExpectedFields(op) ==
  CASE op = "add_trend_data" ->
         { [key |-> "momentum", field |-> "trend_momentum", zero |-> 0],
           [key |-> "avg_interest", field |-> "trend_avg_interest", zero |-> 0],
           [key |-> "max_interest", field |-> "trend_max_interest", zero |-> 0],
           [key |-> "related_queries", field |-> "related_queries",
            zero |-> << >>] }
    [] op = "add_aliexpress_data" ->
         { [key |-> "orders", field |-> "ali_orders", zero |-> 0],
           [key |-> "reviews", field |-> "ali_reviews", zero |-> 0],
           [key |-> "rating", field |-> "ali_rating", zero |-> 0],
           [key |-> "price", field |-> "ali_price", zero |-> 0],
           [key |-> "url", field |-> "ali_url", zero |-> ""] }
    [] op = "add_amazon_data" ->
         { [key |-> "reviews", field |-> "amz_reviews", zero |-> 0],
           [key |-> "rating", field |-> "amz_rating", zero |-> 0],
           [key |-> "price", field |-> "amz_price", zero |-> 0],
           [key |-> "bsr", field |-> "amz_bsr", zero |-> 0],
           [key |-> "is_prime", field |-> "amz_is_prime", zero |-> FALSE],
           [key |-> "url", field |-> "amz_url", zero |-> ""] }

\* C18 as stated: a record that lacks an expected field is ingested and the
\* Product it resolves to stores the zero or empty default of the field: 0
\* for a number, the Amazon rank included, '' for a text, the empty list
\* for a list, false for a boolean.
C18_MissingFieldStoredAsZero ==
  last.op \in {"add_trend_data", "add_aliexpress_data", "add_amazon_data"} =>
    \A i \in 1..Len(products_data) :
      LET from == { k \in 1..Len(last.args) : last.resolved[k] = i }
      IN  from # {} =>
            LET latest == CHOOSE k \in from : \A j \in from : j <= k
            IN  \A f \in ExpectedFields(last.op) :
                  f.key \notin DOMAIN last.args[latest] =>
                    /\ f.field \in DOMAIN products_data[i]
                    /\ products_data[i][f.field] = f.zero

\* the keys of a display record that are read from the fields of one source
\* and the default each has while the source has supplied nothing
UnsuppliedDefaults(flag) ==
  CASE flag = "has_trend_data" ->
         [related_queries |-> << >>, trend_momentum |-> 0, trend_slope |-> 0]
    [] flag = "has_ali_data" ->
         [ali_price |-> 0, ali_rating |-> 0, ali_url |-> "", link_ali |-> "",
          ali_orders |-> 0, orders |-> 0, ali_reviews |-> 0]
    [] flag = "has_amz_data" ->
         [amz_price |-> 0, amz_rating |-> 0, amz_url |-> "",
          link_amazon |-> "", amz_reviews |-> 0, reviews |-> 0]
    [] flag = "has_tiktok_data" ->
         [tiktok_url |-> "", link_tiktok |-> "", tiktok_total_views |-> 0,
          tiktok_videos |-> 0]

\* C19 as stated: a field that no source has supplied to a Product reads as
\* its zero, empty or false default in the display record get_top_products
\* builds for the Product, whatever the other Products contain: without a
\* trend contribution the related queries are the empty list, without a
\* marketplace contribution price and rating are 0 and the URL is empty.
C19_UnsuppliedFieldsReadAsDefaults ==
  (last.op = "get_top_products" /\ last.raised = "") =>
    \A k \in 1..Len(last.result) :
      \A flag \in {"has_trend_data", "has_ali_data", "has_amz_data",
                   "has_tiktok_data"} :
        ~scored_df.rows[k].cells[flag] =>
          \A key \in DOMAIN UnsuppliedDefaults(flag) :
            /\ key \in DOMAIN last.result[k]
            /\ last.result[k][key] = UnsuppliedDefaults(flag)[key]

\* C20 as stated: every hashtag longer than 3 characters that is not in the
\* stoplist (compared in lower case) and whose canonical form has more than
\* 5 characters and at least 2 tokens is among the keywords extracted,
\* unless the cap of 5 is reached, whatever the title is, the empty title
\* and a title that matches no pattern included.
C20_HashtagsIndependentOfTitle ==
  last.op = "extract_products_from_video" =>
    \A k \in 1..Len(last.args[2]) :
      LET hashtag == last.args[2][k]
          cleaned == clean_product_name(hashtag)
      IN  ( /\ Len(hashtag) > 3
            /\ lower(hashtag) \notin GenericHashtags
            /\ Len(cleaned) > 5
            /\ Len(split(cleaned, 1)) >= 2 ) =>
            \/ cleaned \in Range(last.result)
            \/ Len(last.result) = MaxKeywordsPerVideo

\* the videos of the call, by position, that have the keyword among the
\* keywords extracted from them
VideosWith(keyword) ==
  { v \in 1..Len(last.args) : keyword \in Range(last.extracted[v]) }

RECURSIVE Total(_, _)
\* the sum of the field over the videos of the call numbered in S
Total(S, field) ==
  IF S = {} THEN 0
  ELSE LET v == CHOOSE v \in S : TRUE
       IN  get(last.args[v], field, 0) + Total(S \ {v}, field)

\* the first URL that is not empty among the videos numbered in S
FirstUrl(S) ==
  LET with == { v \in S : get(last.args[v], "url", "") # "" }
  IN  IF with = {} THEN ""
      ELSE last.args[CHOOSE v \in with : \A w \in with : v <= w].url

\* C21 as stated: each video counts once per keyword.  After add_tiktok_data
\* the Product a keyword was resolved to (the last keyword resolved to it)
\* has as video count the number of videos with the keyword among their
\* candidates, as totals the sums over exactly those videos, as average
\* total_views / max(1, video count), as URL the first URL that is not
\* empty among those videos, and at most 3 sample videos.
C21_EachVideoOncePerKeyword ==
  last.op = "add_tiktok_data" =>
    \A m \in 1..Len(last.keywords) :
      ( /\ last.resolved[m] # 0
        /\ \A later \in (m + 1)..Len(last.keywords) :
             last.resolved[later] # last.resolved[m] ) =>
        LET product == products_data[last.resolved[m]]
            with == VideosWith(last.keywords[m])
        IN  /\ product.tiktok_video_count = Cardinality(with)
            /\ product.tiktok_total_views = Total(with, "views")
            /\ product.tiktok_total_likes = Total(with, "likes")
            /\ product.tiktok_total_comments = Total(with, "comments")
            /\ product.tiktok_total_shares = Total(with, "shares")
            /\ product.tiktok_avg_views =
                 <<Total(with, "views"), Max(Cardinality(with), 1)>>
            /\ product.tiktok_url = FirstUrl(with)
            /\ Len(product.tiktok_sample_videos) =
                 Min(Cardinality(with), MaxSampleVideos)

\* two distinct Products of the set have similar names
HasSimilarProducts ==
  \E i, j \in 1..Len(products_data) :
    /\ i # j
    /\ are_similar_products(products_data[i].name, products_data[j].name)

\* both threads appended a Product, and the names they resolved are similar
BothAppendedSimilar ==
  /\ \A t \in Threads : threads.running[t].appended
  /\ \/ are_similar_products(threads.running[1].clean_name,
                             threads.running[2].clean_name)
     \/ are_similar_products(threads.running[2].clean_name,
                             threads.running[1].clean_name)

\* C22: without serialization, two resolutions of similar names that both
\* scan before either appends create two Products with similar names, and
\* the merge of the thread that appended second lands on the second Product;
\* that is the only way a similar pair arises, and when scan, append and
\* merge run as one step no state has two similar Products.
C22_ResolverNeedsSerialization ==
  /\ threads.serialized => ~HasSimilarProducts
  /\ HasSimilarProducts <=> BothAppendedSimilar
  /\ BothAppendedSimilar =>
       /\ Len(products_data) = 2
       /\ \A t \in Threads :
            LET self == threads.running[t]
            IN  self.pc = "done" =>
                  /\ FlagOf(self.op) \in DOMAIN products_data[self.found]
                  /\ products_data[self.found][FlagOf(self.op)]
                  /\ ~products_data[3 - self.found][FlagOf(self.op)]

C22_Witness ==
  /\ ~threads.serialized
  /\ HasSimilarProducts
  /\ \A t \in Threads : threads.running[t].pc = "done"
  /\ threads.running[1].found # threads.running[2].found

\* C23: calling the same ingestion operation a second time, right after the
\* first and with the same record list, leaves the Product set as it is
\* (number, order, names, fields and flags), creates no Product and resolves
\* every record to the same Product as in the first call.
C23_ReingestionIdempotent ==
  [][calls = 1 =>
       /\ last'.op = last.op /\ last'.args = last.args
       /\ products_data' = products_data
       /\ last'.resolved = last.resolved]_vars

\* a second call done, after a first call that created a Product and merged
\* another record into a Product that was there
C23_Witness ==
  /\ calls = 2
  /\ \E i, j \in DOMAIN last.resolved :
       /\ last.resolved[i] > last.before
       /\ last.resolved[j] \in 1..last.before

\* C24: after any sequence of ingestion calls no two distinct Products have
\* similar names, and every stored name has at least 3 characters and at
\* least one token.
C24_NoSimilarProducts ==
  /\ \A i, j \in 1..Len(products_data) :
       i # j => ~are_similar_products(products_data[i].name,
                                      products_data[j].name)
  /\ \A i \in 1..Len(products_data) :
       /\ Len(products_data[i].name) >= MinNameLen
       /\ TokenSet(products_data[i].name) # {}

\* three Products after two calls, the last of which also merged a record
\* into a Product of the first call
C24_Witness ==
  /\ calls = 2
  /\ Len(products_data) >= 3
  /\ \E i \in DOMAIN last.resolved : last.resolved[i] = 1
  /\ \E i \in DOMAIN last.resolved : last.resolved[i] = Len(products_data)

\* the scored tables calculate_composite_scores makes of the Product set as
\* it is now
CurrentScores == ScoredFrames(normalize_scores(products_data, Unset))

\* C25: every scoring operation computes its result from the Product set as
\* it is at the call: the scored table it leaves is the one computed from
\* every Product and field ingested so far.
C25_ScoringReflectsIngestion ==
  (last.op \in ScoringOps \ {"normalize_scores"} /\ last.raised = "")
    => scored_df \in CurrentScores

\* C26: export_to_csv on a non-empty Product set, as the first scoring call,
\* returns True and leaves a file of exactly min(top_n, number of Products)
\* rows under the header, whichever sources contributed to each Product.
C26_ExportAlwaysComplete ==
  (last.op = "export_to_csv" /\ ops = 1 /\ products_data # << >>
     /\ last.args[1] > 0)
    => /\ last.raised = ""
       /\ last.result = TRUE
       /\ csv_file.exists
       /\ Len(csv_file.rows) = Min(last.args[1], Len(products_data))

\* the keyword aggregates of the last add_tiktok_data call
Aggregates == GroupVideos(<< >>, last.args, last.orders, 1)

\* the keyword m is the last of the call that resolved to its Product
LastFor(m) ==
  /\ last.resolved[m] # 0
  /\ \A n \in DOMAIN last.resolved : n > m => last.resolved[n] # last.resolved[m]

\* C27: add_tiktok_data calls the resolver once for each distinct keyword of
\* the call, and a Product that several keywords resolved to carries the
\* social fields of the keyword processed last, and nothing of the others.
C27_OncePerKeywordLastReplaces ==
  last.op = "add_tiktok_data" =>
    /\ Len(last.resolved) = Len(Aggregates)
    /\ \A m, n \in DOMAIN Aggregates :
         m # n => Aggregates[m].keyword # Aggregates[n].keyword
    /\ \A m \in DOMAIN Aggregates :
         LastFor(m) =>
           \A k \in DOMAIN tiktok_fields(Aggregates[m]) :
             products_data[last.resolved[m]][k] = tiktok_fields(Aggregates[m])[k]

\* two keywords with different video counts resolved to one Product
C27_Witness ==
  /\ last.op = "add_tiktok_data"
  /\ \E m, n \in DOMAIN last.resolved :
       /\ m < n
       /\ LastFor(n)
       /\ last.resolved[m] = last.resolved[n]
       /\ Len(Aggregates[m].videos) > Len(Aggregates[n].videos)
       /\ Aggregates[m].total_views > Aggregates[n].total_views

\* the rows of the scored table whose Product has, or has not, received a
\* marketplace-B record
RowsByAmazon(contributed) ==
  { i \in DOMAIN scored_df.rows :
      products_data[scored_df.rows[i].index].has_amz_data = contributed }

\* C28: a Product without marketplace-B record is normalized with rank 0,
\* which the reverse formula clips to amz_bsr_normalized = 1; its popularity
\* sub-score is 0.5, not below the rank contribution (half the normalized
\* rank) of any Product that has a marketplace-B rank.
C28_MissingRankCountsAsBest ==
  (last.op = "calculate_composite_scores" /\ scored_df.set) =>
    \A i \in RowsByAmazon(FALSE) :
      LET cells == scored_df.rows[i].cells
      IN  /\ cells.amz_bsr = 0
          /\ Equals(cells.amz_bsr_normalized, 1, 1)
          /\ Equals(cells.amz_popularity_score, 1, 2)
          /\ \A j \in RowsByAmazon(TRUE) :
               ~Less(cells.amz_popularity_score,
                     Times(scored_df.rows[j].cells.amz_bsr_normalized,
                           Fraction(1, 2)))

\* a Product without marketplace-B record scored above, in popularity, a
\* Product whose record carries a rank
C28_Witness ==
  /\ last.op = "calculate_composite_scores"
  /\ scored_df.set
  /\ \E i \in RowsByAmazon(FALSE), j \in RowsByAmazon(TRUE) :
       /\ scored_df.rows[j].cells.amz_bsr > 1
       /\ Less(scored_df.rows[j].cells.amz_popularity_score,
               scored_df.rows[i].cells.amz_popularity_score)

\* C29: the Product list add_tiktok_data leaves is the same for every order
\* in which the candidate sets of the videos can be iterated: same names,
\* same order, same fields.
C29_IndependentOfIterationOrder ==
  last.op = "add_tiktok_data" =>
    \A orders \in VideoOrders(last.args) :
      add_tiktok_data(Empty, last.args, orders).products = products_data

\* the weighted sum of the row of normalized cells, before the clip
Unclipped(cells) == WeightedSum(ComponentScores(cells))

\* what the review counts add to the weighted sum through the velocity and
\* popularity terms, less the competition penalty
ReviewBalance(cells) ==
  Plus(Plus(Times(Blend(0, cells["ali_orders_normalized"],
                        4, cells["ali_reviews_normalized"]),
                  weights.aliexpress_velocity),
            Times(Blend(5, cells["amz_reviews_normalized"],
                        0, cells["amz_bsr_normalized"]),
                  weights.amazon_popularity)),
       Times(ComponentScores(cells).competition_score,
             weights.competition_penalty))

\* the clip of the composite score leaves the row's weighted sum as it is
ClipInactive(cells, scored) ==
  /\ ~Less(Unclipped(cells), Fraction(0, 1))
  /\ ~Less(Fraction(85, 100), Unclipped(cells))
  /\ scored.composite_score = Unclipped(cells)
  /\ ~Less(ReviewBalance(cells), Fraction(0, 1))

\* C30: with the default weights the final clip changes nothing: for
\* normalized inputs in [0,1] the weighted sum is at least 0 and at most
\* 0.85, the penalty never exceeding what the review counts add through the
\* velocity and popularity terms.
C30_ClipNeverActive ==
  /\ last.op = "score" => ClipInactive(last.args[1], last.result)
  /\ \A i \in DOMAIN scored_df.rows :
       ClipInactive(scored_df.rows[i].cells, scored_df.rows[i].cells)

\* a row with the AliExpress review count at 1 and every other input at 0:
\* velocity 0.4 adds 0.10, the penalty takes 0.05, the composite is 0.05
C30_Witness ==
  /\ last.op = "score"
  /\ \A metric \in Metrics :
       last.args[1][NormalizedName(metric)] =
         IF metric = "ali_reviews" THEN Fraction(1, 1) ELSE Fraction(0, 1)
  /\ last.result.competition_score = Fraction(1, 2)
  /\ ReviewBalance(last.args[1]) = Fraction(1, 20)
  /\ last.result.composite_score = Fraction(1, 20)
====
